---- MODULE Spec2Model ----
(***************************************************************************)
(* Cost-leakage detector: ingestion and the detection rules               *)
(* (src/src/detector.py), the severity scorer and the executive summary    *)
(* (src/src/scorer.py), the staged pipeline (src/main.py) and the retry    *)
(* loop of the scheduler (src/scheduler.py) as a state machine.            *)
(*                                                                         *)
(* Units.  Money is held in pence (1 GBP = 100), so a value rounded to 2   *)
(* decimal places is an integer.  price_variance_threshold is held in      *)
(* hundredths (1.15 = 115), volume_spike_sigma in tenths (2.0 = 20),       *)
(* scores and severity bands in hundredths of a point (80 = 8000).  Dates  *)
(* are day numbers.  Arithmetic is exact decimal arithmetic: the binary    *)
(* rounding noise of IEEE doubles is below the model's resolution.         *)
(***************************************************************************)
EXTENDS Integers, Sequences, FiniteSets, TLC

VARIABLES
    cfg,        \* the parsed config.yaml (detection and scoring sections)
    df,         \* the transaction batch returned by load_transactions
    pc,         \* position of the run
    df_sorted,  \* detect_duplicates: df.sort_values("date")
    results,    \* run_detection: the list of rule outputs
    flagged,    \* run_detection: the aggregated, de-duplicated flags
    scored,     \* score_flagged_transactions: the scored, sorted flags
    source,     \* the transactions CSV at cfg["paths"]["raw_data"]
    error,      \* the exception raised, if any
    args,       \* run_pipeline: the parsed command line
    exit_code,  \* run_pipeline: the value returned, -1 until it returns
    raw_summary,\* run_pipeline: the summary of run_detection, << >> for None
    invoked,    \* run_pipeline: the stage functions called so far
    previous,   \* the output of the run before this one, << >> for a first run
    delivered,  \* run_pipeline: the outcome of send_alert, << >> until called
    sched,      \* scheduler: the loop of _run_full_pipeline
    heap,       \* the frames alive while the rules run, by reference
    refs        \* the references the rules returned, by rule name

vars == <<cfg, df, pc, df_sorted, results, flagged, scored, source, error,
          args, exit_code, raw_summary, invoked, previous, delivered, sched,
          heap, refs>>

\* the locals of run_pipeline and the file it reads
pipeline == <<source, error, args, exit_code, raw_summary, invoked, previous,
              delivered>>

\* what lives outside run_pipeline and the functions it calls: the
\* scheduler's loop and the object identities of the frames
outside == <<sched, heap, refs>>

(***************************************************************************)
(* Bounds of the model.                                                    *)
(***************************************************************************)
MaxTxns == 3        \* rows of a duplicate batch
MaxRows == 2        \* rows of a price or delivery batch
MaxScoreRows == 2   \* flags handed to the scorer
MaxDate == 2        \* dates of the duplicate batches run over 0..MaxDate
MaxDays == 5        \* distinct dates of the volume batches
MaxPerDay == 2      \* transactions per date in the volume batches
MaxLate == 3        \* deliveries are up to MaxLate days early or late
MaxRetries == 3     \* scheduler: the largest max_retries
MaxSummaryRows == 6 \* rows of the scored sets handed to the summary

(***************************************************************************)
(* Numeric helpers                                                         *)
(***************************************************************************)
Abs(x) == IF x < 0 THEN -x ELSE x

Min(a, b) == IF a <= b THEN a ELSE b

Max(a, b) == IF a >= b THEN a ELSE b

\* round(n / d) to the nearest integer, ties to the even one (numpy and
\* Python both round half to even); d > 0, \div rounds towards -infinity.
RoundHalfEven(n, d) ==
    LET q == n \div d
        r == n % d
    IN  IF 2 * r < d THEN q
        ELSE IF 2 * r > d THEN q + 1
        ELSE IF q % 2 = 0 THEN q ELSE q + 1

RECURSIVE SumSeq(_)
SumSeq(s) == IF s = << >> THEN 0 ELSE Head(s) + SumSeq(Tail(s))

RECURSIVE SumSq(_)
SumSq(s) == IF s = << >> THEN 0 ELSE Head(s) * Head(s) + SumSq(Tail(s))

\* the elements of a finite set of integers, ascending
RECURSIVE SortedSeq(_)
SortedSeq(S) ==
    IF S = {} THEN << >>
    ELSE LET m == CHOOSE x \in S : \A y \in S : x <= y
         IN  <<m>> \o SortedSeq(S \ {m})

(***************************************************************************)
(* Ingestion: load_transactions                                            *)
(***************************************************************************)
required_columns ==
    {"transaction_id", "date", "supplier_id", "supplier_name", "category",
     "baseline_rate", "invoice_amount", "expected_delivery_date",
     "actual_delivery_date"}

DateColumns == {"date", "expected_delivery_date", "actual_delivery_date"}

NumericColumns == {"invoice_amount", "baseline_rate"}

\* a cell of the CSV in a coerced column: text that reads as the value, or
\* text that reads as no date and no number
Cell(v) == [parses |-> TRUE, value |-> v]

Garbage == [parses |-> FALSE, value |-> 0]

NaN == "NaN"

\* df.to_csv: the typed rows written as text
to_csv(d) ==
    [i \in 1..Len(d) |->
        [f \in DOMAIN d[i] |->
            IF f \in DateColumns \cup NumericColumns
                THEN Cell(d[i][f]) ELSE d[i][f]]]

NoError == [type |-> "none", raised_by |-> "", names |-> {}]

Raised(type, raised_by, names) ==
    [type |-> type, raised_by |-> raised_by, names |-> names]

\* required_columns - set(df.columns), reporting one column only
missing_columns_first(columns) ==
    LET missing == required_columns \ columns
    IN  IF missing = {} THEN {} ELSE {CHOOSE c \in missing : TRUE}

\* required_columns - set(df.columns)
missing_columns(columns) == required_columns \ columns

\* pd.to_datetime(column) raises on text that is no date
to_datetime_raises(rows) ==
    \E i \in 1..Len(rows) : \E f \in DateColumns : ~rows[i][f].parses

\* pd.to_numeric(column, errors="coerce")
to_numeric(c) == IF c.parses THEN c.value ELSE NaN

coerce(raw) ==
    [f \in DOMAIN raw |->
        IF f \in DateColumns THEN raw[f].value
        ELSE IF f \in NumericColumns THEN to_numeric(raw[f])
        ELSE raw[f]]

\* load_transactions reading a file that is not there as an empty frame
load_transactions_lenient(src) ==
    IF ~src.exists
        THEN [error |-> NoError, df |-> << >>]
    ELSE IF missing_columns(src.columns) # {}
        THEN [error |-> Raised("ValueError", "load_transactions",
                               missing_columns(src.columns)),
              df |-> << >>]
    ELSE IF to_datetime_raises(src.rows)
        THEN [error |-> Raised("ValueError", "to_datetime", {}), df |-> << >>]
    ELSE [error |-> NoError,
          df |-> [i \in 1..Len(src.rows) |-> coerce(src.rows[i])]]

\* load_transactions: the frame returned or the exception raised
load_transactions(src) ==
    IF ~src.exists
        THEN [error |-> Raised("FileNotFoundError", "load_transactions", {}),
              df |-> << >>]
    ELSE IF missing_columns(src.columns) # {}
        THEN [error |-> Raised("ValueError", "load_transactions",
                               missing_columns(src.columns)),
              df |-> << >>]
    ELSE IF to_datetime_raises(src.rows)
        THEN [error |-> Raised("ValueError", "to_datetime", {}), df |-> << >>]
    ELSE [error |-> NoError,
          df |-> [i \in 1..Len(src.rows) |-> coerce(src.rows[i])]]

(***************************************************************************)
(* Rule 1: detect_duplicates                                               *)
(***************************************************************************)
\* df["invoice_amount"].round(0): the amount in whole pounds, half to even
amount_key(r) == RoundHalfEven(r.invoice_amount, 100)

GroupKey(r) == <<r.supplier_id, amount_key(r)>>

\* the outcomes of df.sort_values("date"): the default sort is not stable, so
\* rows of equal date may come out in either order
RECURSIVE DateSortedOrders(_, _)
DateSortedOrders(d, left) ==
    IF left = {} THEN {<< >>}
    ELSE UNION {{<<i>> \o rest : rest \in DateSortedOrders(d, left \ {i})} :
                i \in {i \in left : \A j \in left : d[i].date <= d[j].date}}

\* the rows left in input order
sort_values_unsorted(d) == {d}

sort_values_date(d) ==
    {[i \in 1..Len(d) |-> d[p[i]]] : p \in DateSortedOrders(d, 1..Len(d))}

\* the rows of one groupby(["supplier_id", "_amount_key"]) group, in df_sorted order
Group(sorted, k) == SelectSeq(sorted, LAMBDA r : GroupKey(r) = k)

\* the double loop flagging the earlier row of a pair (index i for index j)
GroupFlaggedIdsEarlier(g, window_days) ==
    IF Len(g) < 2 THEN {}
    ELSE {g[i].transaction_id : i \in
            {i \in 1..Len(g) :
                \E j \in (i + 1)..Len(g) : Abs(g[j].date - g[i].date) <= window_days}}

\* the double loop over one group: the ids added to flagged_ids
GroupFlaggedIds(g, window_days) ==
    IF Len(g) < 2 THEN {}
    ELSE {g[j].transaction_id : j \in
            {j \in 1..Len(g) :
                \E i \in 1..(j - 1) : Abs(g[j].date - g[i].date) <= window_days}}

flagged_ids(sorted, window_days) ==
    UNION {GroupFlaggedIds(Group(sorted, k), window_days) :
            k \in {GroupKey(sorted[i]) : i \in 1..Len(sorted)}}

DuplicateRow(r) ==
    r @@ [rule_triggered |-> "duplicate", leakage_amount_gbp |-> r.invoice_amount]

\* the frame returned, given the outcome of the sort
detect_duplicates(d, sorted, window_days) ==
    LET sel == SelectSeq(d, LAMBDA r :
                    r.transaction_id \in flagged_ids(sorted, window_days))
    IN  [i \in 1..Len(sel) |-> DuplicateRow(sel[i])]

(***************************************************************************)
(* Rule 2: detect_price_variance                                           *)
(***************************************************************************)
\* df["invoice_amount"] / df["baseline_rate"], kept as an exact quotient
price_ratio(r) == [num |-> r.invoice_amount, den |-> r.baseline_rate]

\* the comparison with >= for >
RatioAtLeast(q, threshold) ==
    IF q.den = 0 THEN q.num > 0
    ELSE IF q.den > 0 THEN q.num * 100 >= threshold * q.den
    ELSE q.num * 100 <= threshold * q.den

\* q > threshold as float division decides it: x / 0 is +inf for x > 0 and
\* -inf for x < 0, 0 / 0 is NaN, and NaN compares False with everything
RatioExceeds(q, threshold) ==
    IF q.den = 0 THEN q.num > 0
    ELSE IF q.den > 0 THEN q.num * 100 > threshold * q.den
    ELSE q.num * 100 < threshold * q.den

price_mask(r, threshold) == RatioExceeds(price_ratio(r), threshold)

\* the excess over the baseline itself, the threshold forgotten
price_leakage_over_baseline(r, threshold) == r.invoice_amount - r.baseline_rate

\* (invoice_amount - baseline_rate * threshold).round(2), in pence
price_leakage(r, threshold) ==
    RoundHalfEven(r.invoice_amount * 100 - r.baseline_rate * threshold, 100)

PriceRow(r, threshold) ==
    r @@ [rule_triggered |-> "price_variance",
          leakage_amount_gbp |-> price_leakage(r, threshold)]

detect_price_variance(d, threshold) ==
    LET sel == SelectSeq(d, LAMBDA r : price_mask(r, threshold))
    IN  [i \in 1..Len(sel) |-> PriceRow(sel[i], threshold)]

(***************************************************************************)
(* Rule 3: detect_sla_breaches                                             *)
(***************************************************************************)
\* 150.0 GBP per day, in pence
PENALTY_PER_DAY_GBP == 15000

\* the lateness with the grace period forgotten
breach_days_no_grace(r, grace_days) ==
    r.actual_delivery_date - r.expected_delivery_date

breach_days(r, grace_days) ==
    (r.actual_delivery_date - r.expected_delivery_date) - grace_days

sla_mask(r, grace_days) == breach_days(r, grace_days) > 0

SlaRow(r, grace_days) ==
    r @@ [rule_triggered |-> "sla_breach",
          breach_days |-> breach_days(r, grace_days),
          leakage_amount_gbp |-> breach_days(r, grace_days) * PENALTY_PER_DAY_GBP]

detect_sla_breaches(d, grace_days) ==
    LET sel == SelectSeq(d, LAMBDA r : sla_mask(r, grace_days))
    IN  [i \in 1..Len(sel) |-> SlaRow(sel[i], grace_days)]

(***************************************************************************)
(* Rule 4: detect_volume_spikes                                            *)
(***************************************************************************)
\* df.groupby("date").size() ... sort_values("date"): one row per date that
\* occurs in the batch, ascending
daily_counts(d) ==
    LET dates == SortedSeq({d[i].date : i \in 1..Len(d)})
    IN  [k \in 1..Len(dates) |->
            [date |-> dates[k],
             daily_count |-> Cardinality({i \in 1..Len(d) : d[i].date = dates[k]})]]

\* the window without .shift(1): rows k - window + 1 .. k, the day itself included
rolling_obs_unshifted(dc, k, rolling_window) ==
    [i \in 1..(k - Max(k - rolling_window + 1, 1) + 1) |->
        dc[Max(k - rolling_window + 1, 1) + i - 1].daily_count]

\* .shift(1).rolling(window, min_periods=3): the observations behind row k are
\* the daily counts of rows k - window .. k - 1 (row k itself is shifted out)
rolling_obs(dc, k, rolling_window) ==
    [i \in 1..((k - 1) - Max(k - rolling_window, 1) + 1) |->
        dc[Max(k - rolling_window, 1) + i - 1].daily_count]

\* the rows of daily_counts behind the baseline of row k: the rolling window
\* counts rows of the frame (dates that have transactions), not calendar days
rolling_rows(dc, k, rolling_window) == Max(k - rolling_window, 1)..(k - 1)

\* a baseline that is valid from 2 observations on
rolling_valid_from_two(dc, k, rolling_window) ==
    Len(rolling_obs(dc, k, rolling_window)) >= 2

\* fewer than min_periods = 3 observations: mean and std are NaN
rolling_valid(dc, k, rolling_window) == Len(rolling_obs(dc, k, rolling_window)) >= 3

\* daily_count >= rolling_mean + sigma * rolling_std: the bound itself flags
exceeds_upper_bound_inclusive(dc, k, sigma, rolling_window) ==
    LET xs == rolling_obs(dc, k, rolling_window)
        n == Len(xs)
        S == SumSeq(xs)
        Q == SumSq(xs)
        D == n * dc[k].daily_count - S
        V == n * Q - S * S
    IN  /\ rolling_valid(dc, k, rolling_window)
        /\ D >= 0
        /\ D * D * (n - 1) * 100 >= sigma * sigma * V * n

\* daily_count > rolling_mean + sigma * rolling_std, with mean = S / n and
\* std = sqrt((n * Q - S * S) / (n * (n - 1))) (ddof = 1), sigma >= 0 in tenths:
\* n * count - S > 0 and its square above sigma^2 * n^2 * var.  False when the
\* baseline is NaN
exceeds_upper_bound(dc, k, sigma, rolling_window) ==
    LET xs == rolling_obs(dc, k, rolling_window)
        n == Len(xs)
        S == SumSeq(xs)
        Q == SumSq(xs)
        D == n * dc[k].daily_count - S
        V == n * Q - S * S
    IN  /\ rolling_valid(dc, k, rolling_window)
        /\ D > 0
        /\ D * D * (n - 1) * 100 > sigma * sigma * V * n

spike_days(d, sigma, rolling_window) ==
    {daily_counts(d)[k].date : k \in
        {k \in 1..Len(daily_counts(d)) :
            exceeds_upper_bound(daily_counts(d), k, sigma, rolling_window)}}

count_on(d, date) == Cardinality({i \in 1..Len(d) : d[i].date = date})

VolumeRow(r, d) ==
    r @@ [rule_triggered |-> "volume_spike",
          daily_count |-> count_on(d, r.date),
          leakage_amount_gbp |-> 0]

detect_volume_spikes(d, sigma, rolling_window) ==
    LET sel == SelectSeq(d, LAMBDA r : r.date \in spike_days(d, sigma, rolling_window))
    IN  [i \in 1..Len(sel) |-> VolumeRow(sel[i], d)]

(***************************************************************************)
(* run_detection: aggregation of the four rule outputs                     *)
(***************************************************************************)
RECURSIVE concat(_)
concat(rs) == IF rs = << >> THEN << >> ELSE Head(rs) \o concat(Tail(rs))

PairKey(f) == <<f.transaction_id, f.rule_triggered>>

\* no de-duplication at all
keep_all(s) == s

\* drop_duplicates(subset=["transaction_id"]): one row per transaction
drop_duplicates_by_id(s) ==
    LET keep == SortedSeq({i \in 1..Len(s) :
                    \A j \in 1..(i - 1) : s[j].transaction_id # s[i].transaction_id})
    IN  [k \in 1..Len(keep) |-> s[keep[k]]]

\* drop_duplicates(subset=["transaction_id", "rule_triggered"]): the first row
\* of every key is kept, in order
drop_duplicates(s) ==
    LET keep == SortedSeq({i \in 1..Len(s) :
                    \A j \in 1..(i - 1) : PairKey(s[j]) # PairKey(s[i])})
    IN  [k \in 1..Len(keep) |-> s[keep[k]]]

aggregate(rs) == drop_duplicates(concat(rs))

(***************************************************************************)
(* scorer.py                                                               *)
(***************************************************************************)
SEVERITY_ORDER == [Critical |-> 4, High |-> 3, Medium |-> 2, Low |-> 1]

\* _financial_impact_score without its amount_gbp <= 0 branch
financial_impact_score_unguarded(amount_gbp, thresholds) ==
    LET low == thresholds.low_threshold
        med == thresholds.medium_threshold
        high == thresholds.high_threshold
    IN  IF amount_gbp < low
            THEN 500 + RoundHalfEven(amount_gbp * 500, low)
        ELSE IF amount_gbp < med
            THEN 1000 + RoundHalfEven((amount_gbp - low) * 1000, med - low)
        ELSE IF amount_gbp < high
            THEN 2000 + RoundHalfEven((amount_gbp - med) * 800, high - med)
        ELSE 3000

\* _financial_impact_score with the slope of its second band in its third
financial_impact_score_steep(amount_gbp, thresholds) ==
    LET low == thresholds.low_threshold
        med == thresholds.medium_threshold
        high == thresholds.high_threshold
    IN  IF amount_gbp <= 0 THEN 0
        ELSE IF amount_gbp < low
            THEN 500 + RoundHalfEven(amount_gbp * 500, low)
        ELSE IF amount_gbp < med
            THEN 1000 + RoundHalfEven((amount_gbp - low) * 1000, med - low)
        ELSE IF amount_gbp < high
            THEN 2000 + RoundHalfEven((amount_gbp - med) * 1000, high - med)
        ELSE 3000

\* _financial_impact_score with its second band starting from 0
financial_impact_score_no_offset(amount_gbp, thresholds) ==
    LET low == thresholds.low_threshold
        med == thresholds.medium_threshold
        high == thresholds.high_threshold
    IN  IF amount_gbp <= 0 THEN 0
        ELSE IF amount_gbp < low
            THEN 500 + RoundHalfEven(amount_gbp * 500, low)
        ELSE IF amount_gbp < med
            THEN RoundHalfEven((amount_gbp - low) * 1000, med - low)
        ELSE IF amount_gbp < high
            THEN 2000 + RoundHalfEven((amount_gbp - med) * 800, high - med)
        ELSE 3000

\* _financial_impact_score, in hundredths of a point; amounts and thresholds
\* in pence.  round(5 + x * 5, 2) is 5 plus x * 5 rounded to 2 places.
financial_impact_score(amount_gbp, thresholds) ==
    LET low == thresholds.low_threshold
        med == thresholds.medium_threshold
        high == thresholds.high_threshold
    IN  IF amount_gbp <= 0 THEN 0
        ELSE IF amount_gbp < low
            THEN 500 + RoundHalfEven(amount_gbp * 500, low)
        ELSE IF amount_gbp < med
            THEN 1000 + RoundHalfEven((amount_gbp - low) * 1000, med - low)
        ELSE IF amount_gbp < high
            THEN 2000 + RoundHalfEven((amount_gbp - med) * 800, high - med)
        ELSE 3000

\* the cascade with its first two tests in the other order
classify_severity_high_first(score, bands) ==
    IF score >= bands.high THEN "High"
    ELSE IF score >= bands.critical THEN "Critical"
    ELSE IF score >= bands.medium THEN "Medium"
    ELSE "Low"

\* the cascade with > for >=
classify_severity_exclusive(score, bands) ==
    IF score > bands.critical THEN "Critical"
    ELSE IF score > bands.high THEN "High"
    ELSE IF score > bands.medium THEN "Medium"
    ELSE "Low"

classify_severity(score, bands) ==
    IF score >= bands.critical THEN "Critical"
    ELSE IF score >= bands.high THEN "High"
    ELSE IF score >= bands.medium THEN "Medium"
    ELSE "Low"

\* df["rule_triggered"].map(base_scores).fillna(30.0)
base_score(rule, base_scores) ==
    IF rule \in DOMAIN base_scores THEN base_scores[rule] ELSE 3000

\* (base_score + financial_score).clip(upper=100)
composite_score(base, financial) == Min(base + financial, 10000)

ScoredRow(f, scoring_cfg) ==
    LET b == base_score(f.rule_triggered, scoring_cfg.rule_base_scores)
        fs == financial_impact_score(f.leakage_amount_gbp,
                                     scoring_cfg.financial_multipliers)
        c == composite_score(b, fs)
        sev == classify_severity(c, scoring_cfg.severity_bands)
    IN  f @@ [base_score |-> b, financial_score |-> fs, composite_score |-> c,
              severity |-> sev, severity_rank |-> SEVERITY_ORDER[sev]]

\* the order of SortsBefore with ties broken towards the later row
SortsBeforeUnstable(s, j, i) ==
    \/ s[j].severity_rank > s[i].severity_rank
    \/ /\ s[j].severity_rank = s[i].severity_rank
       /\ s[j].leakage_amount_gbp > s[i].leakage_amount_gbp
    \/ /\ s[j].severity_rank = s[i].severity_rank
       /\ s[j].leakage_amount_gbp = s[i].leakage_amount_gbp
       /\ j > i

\* row j comes before row i under sort_values(["severity_rank",
\* "leakage_amount_gbp"], ascending=[False, False]); a sort on several keys is
\* a lexsort, which is stable
SortsBefore(s, j, i) ==
    \/ s[j].severity_rank > s[i].severity_rank
    \/ /\ s[j].severity_rank = s[i].severity_rank
       /\ s[j].leakage_amount_gbp > s[i].leakage_amount_gbp
    \/ /\ s[j].severity_rank = s[i].severity_rank
       /\ s[j].leakage_amount_gbp = s[i].leakage_amount_gbp
       /\ j < i

sort_scored(s) ==
    [p \in 1..Len(s) |->
        s[CHOOSE i \in 1..Len(s) :
            Cardinality({j \in 1..Len(s) : SortsBefore(s, j, i)}) = p - 1]]

score_flagged_transactions(fl, scoring_cfg) ==
    sort_scored([i \in 1..Len(fl) |-> ScoredRow(fl[i], scoring_cfg)])

(***************************************************************************)
(* The executive summary: build_executive_summary (src/src/scorer.py)      *)
(***************************************************************************)
\* supplier names and categories, in the (alphabetical) order in which
\* groupby lists its keys
SupplierNames ==
    <<"Apex Ltd", "Birch Co", "Cedar plc", "Dune Ltd", "Elm Co", "Fir plc",
      "Gorse Ltd", "Heath Co", "Iris plc">>

Categories == <<"Facilities", "IT", "Logistics">>

\* the rows of a frame with a value in a column
RowsWith(s, column, value) == {i \in 1..Len(s) : s[i][column] = value}

\* sum of leakage_amount_gbp over a set of rows of a frame
RECURSIVE SumLeakage(_, _)
SumLeakage(s, I) ==
    IF I = {} THEN 0
    ELSE LET i == CHOOSE x \in I : TRUE
         IN  s[i].leakage_amount_gbp + SumLeakage(s, I \ {i})

\* groupby(column)["leakage_amount_gbp"].sum().round(2): one entry per key
\* that occurs, keys in sorted order; sums of amounts in pence are whole
groupby_sum(s, keys, column) ==
    LET present == SelectSeq(keys, LAMBDA k : RowsWith(s, column, k) # {})
    IN  [k \in 1..Len(present) |->
            [key |-> present[k],
             value |-> SumLeakage(s, RowsWith(s, column, present[k]))]]

\* the outcomes of Series.sort_values(ascending=False): the default sort is
\* not stable, so entries of equal value may come out in either order
RECURSIVE DescendingOrders(_, _)
DescendingOrders(series, left) ==
    IF left = {} THEN {<< >>}
    ELSE UNION {{<<i>> \o rest : rest \in DescendingOrders(series, left \ {i})} :
                i \in {i \in left :
                        \A j \in left : series[i].value >= series[j].value}}

sort_values_descending(series) ==
    {[k \in 1..Len(series) |-> series[p[k]]] :
        p \in DescendingOrders(series, 1..Len(series))}

\* head(5)
head(series) == SubSeq(series, 1, Min(5, Len(series)))

\* the label is counted only if some flag carries it
counted_labels(s) == {s[i].severity : i \in 1..Len(s)}

\* the four counts are taken one by one, whatever the scored set holds
severity_labels(s) == {"Critical", "High", "Medium", "Low"}

severity_breakdown(s) ==
    [label \in severity_labels(s) |->
        Cardinality(RowsWith(s, "severity", label))]

\* groupby("rule_triggered").agg(count, leakage_gbp).to_dict(orient="index")
by_rule(s) ==
    [rule \in {s[i].rule_triggered : i \in 1..Len(s)} |->
        [count |-> Cardinality(RowsWith(s, "rule_triggered", rule)),
         leakage_gbp |-> SumLeakage(s, RowsWith(s, "rule_triggered", rule))]]

\* the summary dict, given the outcomes of the two descending sorts
build_executive_summary(s, raw, config, categories_sorted, suppliers_sorted) ==
    [headline_gbp |-> SumLeakage(s, 1..Len(s)),
     headline_transactions |->
        Cardinality({s[i].transaction_id : i \in 1..Len(s)}),
     total_flags |-> Len(s),
     severity_breakdown |-> severity_breakdown(s),
     by_category |-> categories_sorted,
     by_rule |-> by_rule(s),
     top_suppliers |-> head(suppliers_sorted),
     date_range |-> [start |-> raw.date_range_start,
                     end |-> raw.date_range_end],
     total_transactions_analysed |-> raw.total_transactions,
     currency |-> config.project.currency]

(***************************************************************************)
(* Inputs                                                                  *)
(***************************************************************************)
Rules == {"duplicate", "price_variance", "sla_breach", "volume_spike"}

\* one row of transactions.csv; expected delivery is 3 days after the order
Txn(id, date, sup, amount, baseline, late) ==
    [transaction_id |-> id, date |-> date, supplier_id |-> sup,
     invoice_amount |-> amount, baseline_rate |-> baseline,
     expected_delivery_date |-> date + 3,
     actual_delivery_date |-> date + 3 + late]

\* the defaults of the rule functions' signatures
DefaultDetection ==
    [duplicate_window_days |-> 1, price_variance_threshold |-> 115,
     sla_grace_days |-> 0, volume_spike_sigma |-> 20,
     volume_rolling_window |-> 14]

\* the bands and thresholds of tests/test_scorer.py; base scores within 0..70
DefaultScoring ==
    [rule_base_scores |-> [duplicate |-> 7000, price_variance |-> 5000,
                           sla_breach |-> 4000, volume_spike |-> 2500],
     financial_multipliers |-> [low_threshold |-> 50000,
                                medium_threshold |-> 200000,
                                high_threshold |-> 1000000],
     severity_bands |-> [critical |-> 8000, high |-> 6000,
                         medium |-> 3500, low |-> 0]]

DefaultCfg == [detection |-> DefaultDetection, scoring |-> DefaultScoring]

WithDetection(key, value) ==
    [DefaultCfg EXCEPT !.detection = [DefaultDetection EXCEPT ![key] = value]]

\* all sequences of 1..n rows drawn from a set of rows
Batches(rows, n) == UNION {[1..k -> rows] : k \in 1..n}

\* positional, hence unique, transaction ids
WithIds(b) == [i \in 1..Len(b) |-> [b[i] EXCEPT !.transaction_id = i]]

NoArgs ==
    [generate_data |-> FALSE, detect |-> FALSE, report |-> FALSE,
     dashboard |-> FALSE, alert |-> FALSE, full_run |-> FALSE]

NoSource == [exists |-> FALSE, columns |-> {}, rows |-> << >>]

\* run_pipeline is not running: a function is called on its own
NoPipeline ==
    /\ error = NoError
    /\ args = NoArgs
    /\ exit_code = -1
    /\ raw_summary = << >>
    /\ invoked = {}
    /\ previous = << >>
    /\ delivered = << >>

\* no scheduler drives the run
NoSched == [max_retries |-> 0, attempt |-> 0, invocations |-> 0, sleeps |-> 0]

\* nothing has run yet
Quiet ==
    /\ sched = NoSched
    /\ heap = << >>
    /\ refs = << >>
    /\ df_sorted = << >>
    /\ results = << >>
    /\ flagged = << >>
    /\ scored = << >>
    /\ source = NoSource
    /\ NoPipeline

Suppliers == {"SUP001", "SUP002"}

\* supplier and amount of a row: amounts of whole-pound keys 1000, 1000 and
\* 1001 for one supplier, and the first amount again for another supplier
DupProfiles ==
    {<<"SUP001", 100000>>, <<"SUP001", 100040>>, <<"SUP001", 100060>>,
     <<"SUP002", 100000>>}

DupRows ==
    {Txn(0, date, g[1], g[2], 100000, 0) : date \in 0..MaxDate, g \in DupProfiles}

InitDup ==
    /\ df \in {WithIds(b) : b \in Batches(DupRows, MaxTxns)}
    /\ cfg \in {WithDetection("duplicate_window_days", w) : w \in {0, 1}}
    /\ pc = "call_detect_duplicates"
    /\ Quiet

\* baselines of 0.00, 0.05 and 1000.00 with invoices around baseline * 1.15
PriceRows ==
    {Txn(0, 0, "SUP001", amount, baseline, 0) :
        amount \in {0, 5, 6, 100000, 115000, 115001, 130000},
        baseline \in {0, 5, 100000}}

InitPrice ==
    /\ df \in {WithIds(b) : b \in Batches(PriceRows, MaxRows)}
    /\ cfg \in {WithDetection("price_variance_threshold", t) : t \in {115, 120}}
    /\ pc = "call_detect_price_variance"
    /\ Quiet

SlaRows == {Txn(0, 0, "SUP001", 100000, 100000, late) : late \in -MaxLate..MaxLate}

\* the penalty is read from no option: the other options vary as well
InitSla ==
    /\ df \in {WithIds(b) : b \in Batches(SlaRows, MaxRows)}
    /\ \E g \in {0, 1, 3}, t \in {115, 120}, sc \in {DefaultScoring,
            [DefaultScoring EXCEPT !.rule_base_scores.sla_breach = 7000]} :
        cfg = [detection |-> [DefaultDetection EXCEPT !.sla_grace_days = g,
                                                      !.price_variance_threshold = t],
               scoring |-> sc]
    /\ pc = "call_detect_sla_breaches"
    /\ Quiet

\* the batch with counts[k] transactions on date k, dates ascending
RECURSIVE VolumeBatch(_, _)
VolumeBatch(counts, k) ==
    IF k = 0 THEN << >>
    ELSE VolumeBatch(counts, k - 1)
         \o [i \in 1..counts[k] |-> Txn(0, k, "SUP001", 100000, 100000, 0)]

InitVol ==
    /\ df \in {WithIds(VolumeBatch(counts, MaxDays)) :
                counts \in {c \in [1..MaxDays -> 0..MaxPerDay] :
                                \E k \in 1..MaxDays : c[k] > 0}}
    /\ \E sigma \in {0, 10, 20}, w \in {3, 4} :
        cfg = [DefaultCfg EXCEPT !.detection.volume_spike_sigma = sigma,
                                 !.detection.volume_rolling_window = w]
    /\ pc = "call_detect_volume_spikes"
    /\ Quiet

\* three days of one transaction each, in three groups, then one or two
\* transactions that may repeat a supplier and amount, overcharge, arrive
\* late, share a date and share a transaction id (ids are not checked on load)
HistoryRows ==
    <<Txn(1, 0, "SUP001", 100000, 100000, 0),
      Txn(2, 1, "SUP001", 200000, 200000, 0),
      Txn(3, 2, "SUP001", 300000, 300000, 0)>>

LastRows(id, dates) ==
    {Txn(id, date, sup, amount, 100000, late) :
        date \in dates, sup \in Suppliers, amount \in {100000, 130000},
        late \in {0, 2}}

PipelineBatches ==
    {HistoryRows \o <<r4>> : r4 \in LastRows(4, {3})}
    \cup {HistoryRows \o <<r4, r5>> :
            r4 \in LastRows(4, {3}),
            r5 \in LastRows(4, {3, 4}) \cup LastRows(5, {3, 4})}

\* a batch with no anomaly, one with a late overcharged invoice, and one whose
\* last two rows repeat the first row's supplier and amount on one date
SmallBatches ==
    {HistoryRows \o <<Txn(4, 3, "SUP001", 100000, 100000, 0)>>,
     HistoryRows \o <<Txn(4, 3, "SUP002", 130000, 100000, 2)>>,
     HistoryRows \o <<Txn(4, 3, "SUP001", 100000, 100000, 0),
                      Txn(5, 3, "SUP001", 100000, 100000, 0)>>}

\* a record without one of its keys
Without(rec, key) == [k \in DOMAIN rec \ {key} |-> rec[k]]

ScoringKeys == {"rule_base_scores", "financial_multipliers", "severity_bands"}

DetectionKeys ==
    {"duplicate_window_days", "price_variance_threshold", "sla_grace_days",
     "volume_spike_sigma", "volume_rolling_window"}

\* configurations lacking one required key, and one whose rolling window is
\* shorter than the 3 observations the rule asks for
FaultyConfigs ==
    {[DefaultCfg EXCEPT !.detection = Without(DefaultDetection, k)] :
        k \in DetectionKeys}
    \cup {[DefaultCfg EXCEPT !.scoring = Without(DefaultScoring, k)] :
            k \in ScoringKeys}
    \cup {WithDetection("volume_rolling_window", 2)}

ArgSets ==
    {[NoArgs EXCEPT !.full_run = TRUE],
     [NoArgs EXCEPT !.detect = TRUE],
     [NoArgs EXCEPT !.generate_data = TRUE],
     [NoArgs EXCEPT !.report = TRUE, !.dashboard = TRUE],
     [NoArgs EXCEPT !.alert = TRUE]}

\* the file, when it is there or once generate_dataset has written it, holds
\* the batch; a file that is there may lack a column
Init ==
    /\ \/ /\ source \in {[exists |-> TRUE, columns |-> required_columns,
                            rows |-> to_csv(b)] : b \in PipelineBatches}
          /\ cfg \in {WithDetection("duplicate_window_days", w) : w \in {0, 1}}
          /\ args \in {[NoArgs EXCEPT !.detect = TRUE],
                        [NoArgs EXCEPT !.full_run = TRUE]}
       \/ /\ source \in [exists : BOOLEAN,
                          columns : {required_columns,
                                     required_columns \ {"category"}},
                          rows : {to_csv(b) : b \in SmallBatches}]
          /\ cfg \in FaultyConfigs
                      \cup {WithDetection("duplicate_window_days", w) : w \in {0, 1}}
          /\ args \in ArgSets
    /\ pc = "stage_1"
    /\ df = << >>
    /\ df_sorted = << >>
    /\ results = << >>
    /\ flagged = << >>
    /\ scored = << >>
    /\ error = NoError
    /\ exit_code = -1
    /\ raw_summary = << >>
    /\ invoked = {}
    /\ previous = << >>
    /\ delivered = << >>
    /\ sched = NoSched
    /\ heap = << >>
    /\ refs = << >>

\* flags handed to the scorer: any rule name, any leakage
ScoreLeakages ==
    {-100000, 0, 1, 25000, 50000, 125000, 200000, 600000, 1000000, 5000000}

ScoreRows ==
    {[transaction_id |-> 0, rule_triggered |-> rule, leakage_amount_gbp |-> amount] :
        rule \in Rules \cup {"manual_review"}, amount \in ScoreLeakages}

\* flags whose financial score is exactly 10
BoundaryRows == {f \in ScoreRows : f.leakage_amount_gbp = 50000}

ScoringConfigs ==
    {DefaultScoring}
    \cup {[DefaultScoring EXCEPT !.severity_bands = b] :
            b \in {[critical |-> 5000, high |-> 6000, medium |-> 3500, low |-> 0],
                   [critical |-> 8000, high |-> 3000, medium |-> 6000, low |-> 0],
                   [critical |-> 6000, high |-> 6000, medium |-> 6000, low |-> 0]}}
    \cup {[DefaultScoring EXCEPT !.rule_base_scores = m] :
            m \in {[r \in Rules |-> 0], [r \in Rules |-> 7000],
                   [duplicate |-> 4500]}}
    \cup {[DefaultScoring EXCEPT !.financial_multipliers = t] :
            t \in {[low_threshold |-> 200000, medium_threshold |-> 50000,
                    high_threshold |-> 1000000],
                   [low_threshold |-> 100, medium_threshold |-> 200,
                    high_threshold |-> 300]}}

InitScore ==
    /\ flagged \in {WithIds(b) :
                        b \in Batches(ScoreRows, MaxScoreRows)
                              \cup [1..(MaxScoreRows + 1) -> BoundaryRows]}
    /\ cfg \in {[detection |-> DefaultDetection, scoring |-> sc] :
                    sc \in ScoringConfigs}
    /\ pc = "call_score_flagged_transactions"
    /\ df = << >>
    /\ df_sorted = << >>
    /\ results = << >>
    /\ scored = << >>
    /\ source = NoSource
    /\ NoPipeline
    /\ sched = NoSched
    /\ heap = << >>
    /\ refs = << >>

\* config.yaml with its project section
SummaryCfg == DefaultCfg @@ [project |-> [currency |-> "GBP"]]

\* the flag in row i of a scored set handed to the summary: the supplier is
\* the row's own (later rows have names earlier in the alphabet) or the
\* supplier of row 1, and the leakage is i or i - 1 hundred pounds, so that
\* totals of different suppliers can be equal
SummaryRow(i, own, full) ==
    [transaction_id |-> i,
     supplier_name |->
        SupplierNames[IF own THEN Len(SupplierNames) + 1 - i
                             ELSE Len(SupplierNames)],
     category |-> Categories[(i % 2) + 1],
     rule_triggered |->
        IF i % 4 = 1 THEN "volume_spike"
        ELSE IF i % 4 = 2 THEN "sla_breach"
        ELSE IF i % 4 = 3 THEN "price_variance"
        ELSE "duplicate",
     leakage_amount_gbp |-> IF full THEN i * 10000 ELSE (i - 1) * 10000]

SummaryBatches ==
    UNION {{[i \in 1..n |-> SummaryRow(i, own[i], full[i])] :
                own \in [1..n -> BOOLEAN], full \in [1..n -> BOOLEAN]} :
            n \in 1..MaxSummaryRows}

\* the scored set is what score_flagged_transactions returns for the flags
InitSummary ==
    /\ flagged \in SummaryBatches
    /\ scored = score_flagged_transactions(flagged, DefaultScoring)
    /\ cfg \in {SummaryCfg, DefaultCfg}
    /\ raw_summary = <<[total_transactions |-> MaxSummaryRows,
                        date_range_start |-> 0,
                        date_range_end |-> MaxDate]>>
    /\ pc = "call_build_executive_summary"
    /\ df = << >>
    /\ df_sorted = << >>
    /\ results = << >>
    /\ source = NoSource
    /\ error = NoError
    /\ args = NoArgs
    /\ exit_code = -1
    /\ invoked = {}
    /\ previous = << >>
    /\ delivered = << >>
    /\ sched = NoSched
    /\ heap = << >>
    /\ refs = << >>

\* a CSV that may be absent, lack columns or hold cells that do not parse
LoadCell(v, bad, f) == IF f \in bad THEN Garbage ELSE Cell(v)

LoadRows ==
    {[transaction_id |-> 0, supplier_id |-> "SUP001",
      date |-> LoadCell(0, bad, "date"),
      invoice_amount |-> LoadCell(115001, bad, "invoice_amount"),
      baseline_rate |-> LoadCell(100000, bad, "baseline_rate"),
      expected_delivery_date |-> LoadCell(3, bad, "expected_delivery_date"),
      actual_delivery_date |-> LoadCell(4, bad, "actual_delivery_date")] :
        bad \in SUBSET {"date", "invoice_amount", "baseline_rate",
                        "actual_delivery_date"}}

LoadColumns ==
    {(required_columns \ absent) \cup extra :
        absent \in SUBSET {"supplier_name", "date", "invoice_amount"},
        extra \in {{}, {"region"}}}

InitLoad ==
    /\ source \in [exists : BOOLEAN, columns : LoadColumns,
                    rows : {WithIds(b) : b \in Batches(LoadRows, MaxRows)}]
    /\ cfg = DefaultCfg
    /\ pc = "call_load_transactions"
    /\ df = << >>
    /\ df_sorted = << >>
    /\ results = << >>
    /\ flagged = << >>
    /\ scored = << >>
    /\ NoPipeline
    /\ sched = NoSched
    /\ heap = << >>
    /\ refs = << >>

(***************************************************************************)
(* A direct call of one function, as the unit tests make it                *)
(***************************************************************************)
CallLoadTransactions ==
    /\ pc = "call_load_transactions"
    /\ LET r == load_transactions(source)
       IN  /\ df' = r.df
           /\ error' = r.error
           /\ pc' = IF r.error = NoError THEN "returned" ELSE "raised"
    /\ UNCHANGED <<cfg, df_sorted, results, flagged, scored, source, args,
                   exit_code, raw_summary, invoked, previous>>
    /\ UNCHANGED delivered
    /\ UNCHANGED outside

CallDetectDuplicates ==
    /\ pc = "call_detect_duplicates"
    /\ \E sorted \in sort_values_date(df) :
        /\ df_sorted' = sorted
        /\ results' = <<detect_duplicates(df, sorted,
                            cfg.detection.duplicate_window_days)>>
    /\ pc' = "returned"
    /\ UNCHANGED <<cfg, df, flagged, scored>>
    /\ UNCHANGED pipeline
    /\ UNCHANGED outside

CallDetectPriceVariance ==
    /\ pc = "call_detect_price_variance"
    /\ results' = <<detect_price_variance(df, cfg.detection.price_variance_threshold)>>
    /\ pc' = "returned"
    /\ UNCHANGED <<cfg, df, df_sorted, flagged, scored>>
    /\ UNCHANGED pipeline
    /\ UNCHANGED outside

CallDetectSlaBreaches ==
    /\ pc = "call_detect_sla_breaches"
    /\ results' = <<detect_sla_breaches(df, cfg.detection.sla_grace_days)>>
    /\ pc' = "returned"
    /\ UNCHANGED <<cfg, df, df_sorted, flagged, scored>>
    /\ UNCHANGED pipeline
    /\ UNCHANGED outside

CallDetectVolumeSpikes ==
    /\ pc = "call_detect_volume_spikes"
    /\ results' = <<detect_volume_spikes(df, cfg.detection.volume_spike_sigma,
                                         cfg.detection.volume_rolling_window)>>
    /\ pc' = "returned"
    /\ UNCHANGED <<cfg, df, df_sorted, flagged, scored>>
    /\ UNCHANGED pipeline
    /\ UNCHANGED outside

CallScoreFlaggedTransactions ==
    /\ pc = "call_score_flagged_transactions"
    /\ scored' = score_flagged_transactions(flagged, cfg.scoring)
    /\ pc' = "returned"
    /\ UNCHANGED <<cfg, df, df_sorted, results, flagged>>
    /\ UNCHANGED pipeline
    /\ UNCHANGED outside

\* build_executive_summary(scored, raw_summary, config_path): the summary,
\* or the KeyError of cfg["project"] on a configuration without the section
CallBuildExecutiveSummary ==
    /\ pc = "call_build_executive_summary"
    /\ IF "project" \in DOMAIN cfg
           THEN /\ \E categories_sorted \in sort_values_descending(
                            groupby_sum(scored, Categories, "category")),
                      suppliers_sorted \in sort_values_descending(
                            groupby_sum(scored, SupplierNames, "supplier_name")) :
                    results' = <<build_executive_summary(scored, raw_summary[1],
                                    cfg, categories_sorted, suppliers_sorted)>>
                /\ pc' = "returned"
                /\ UNCHANGED error
           ELSE /\ error' = Raised("KeyError", "build_executive_summary",
                                   {"project"})
                /\ pc' = "raised"
                /\ UNCHANGED results
    /\ UNCHANGED <<cfg, df, df_sorted, flagged, scored, source, args,
                   exit_code, raw_summary, invoked, previous, delivered>>
    /\ UNCHANGED outside

(***************************************************************************)
(* run_pipeline: the stages, with run_detection in steps                   *)
(***************************************************************************)
\* run_pipeline returns
Return(code, err) ==
    /\ pc' = "exit"
    /\ exit_code' = code
    /\ error' = err

\* detection is wanted by --detect, --report, --dashboard, --alert, --full-run
WantsDetection ==
    args.full_run \/ args.detect \/ args.report \/ args.dashboard \/ args.alert

\* stage 1: generate_dataset writes the seeded dataset, or raises
GenerateData ==
    /\ pc = "stage_1"
    /\ args.full_run \/ args.generate_data
    /\ invoked' = invoked \cup {"generate_dataset"}
    /\ \/ /\ source' = [source EXCEPT !.exists = TRUE,
                                      !.columns = required_columns]
          /\ pc' = "stage_2"
          /\ UNCHANGED <<exit_code, error>>
       \/ /\ Return(1, Raised("Exception", "generate_dataset", {}))
          /\ UNCHANGED source
    /\ UNCHANGED <<cfg, df, df_sorted, results, flagged, scored, args,
                   raw_summary, previous>>
    /\ UNCHANGED delivered
    /\ UNCHANGED outside

SkipGenerateData ==
    /\ pc = "stage_1"
    /\ ~(args.full_run \/ args.generate_data)
    /\ pc' = "stage_2"
    /\ UNCHANGED <<cfg, df, df_sorted, results, flagged, scored>>
    /\ UNCHANGED pipeline
    /\ UNCHANGED outside

\* stage 2 is not wanted: flagged stays None
SkipDetection ==
    /\ pc = "stage_2"
    /\ ~WantsDetection
    /\ pc' = "stage_3"
    /\ UNCHANGED <<cfg, df, df_sorted, results, flagged, scored>>
    /\ UNCHANGED pipeline
    /\ UNCHANGED outside

\* run_detection up to results = []: the batch is loaded, or the exception
\* of load_transactions reaches run_pipeline, which returns 1
LoadTransactions ==
    /\ pc = "stage_2"
    /\ WantsDetection
    /\ invoked' = invoked \cup {"run_detection"}
    /\ LET r == load_transactions(source)
       IN  IF r.error = NoError
               THEN /\ df' = r.df
                    /\ pc' = "detect_duplicates"
                    /\ UNCHANGED <<exit_code, error>>
               ELSE /\ Return(1, r.error)
                    /\ UNCHANGED df
    /\ UNCHANGED <<cfg, df_sorted, results, flagged, scored, source, args,
                   raw_summary, previous>>
    /\ UNCHANGED delivered
    /\ UNCHANGED outside

\* det_cfg[key] of a key the configuration lacks
KeyError(key) == Raised("KeyError", "run_detection", {key})

\* the run before this one sorted the same frame: the sort is a function of
\* its input, so it resolves the ties the same way
SameSortAsBefore(sorted) ==
    previous # << >> /\ previous[1].df_sorted # << >>
    => sorted = previous[1].df_sorted

\* run_detection with a sort that may resolve ties anew on every run
RunDetectDuplicatesFreshSort ==
    /\ pc = "detect_duplicates"
    /\ IF "duplicate_window_days" \notin DOMAIN cfg.detection
           THEN /\ Return(1, KeyError("duplicate_window_days"))
                /\ UNCHANGED <<df_sorted, results>>
           ELSE /\ \E sorted \in sort_values_date(df) :
                    /\ df_sorted' = sorted
                    /\ results' = Append(results,
                            detect_duplicates(df, sorted,
                                cfg.detection.duplicate_window_days))
                /\ pc' = "detect_price_variance"
                /\ UNCHANGED <<exit_code, error>>
    /\ UNCHANGED <<cfg, df, flagged, scored, source, args, raw_summary,
                   invoked, previous>>
    /\ UNCHANGED delivered
    /\ UNCHANGED outside

RunDetectDuplicates ==
    /\ pc = "detect_duplicates"
    /\ IF "duplicate_window_days" \notin DOMAIN cfg.detection
           THEN /\ Return(1, KeyError("duplicate_window_days"))
                /\ UNCHANGED <<df_sorted, results>>
           ELSE /\ \E sorted \in sort_values_date(df) :
                    /\ SameSortAsBefore(sorted)
                    /\ df_sorted' = sorted
                    /\ results' = Append(results,
                            detect_duplicates(df, sorted,
                                cfg.detection.duplicate_window_days))
                /\ pc' = "detect_price_variance"
                /\ UNCHANGED <<exit_code, error>>
    /\ UNCHANGED <<cfg, df, flagged, scored, source, args, raw_summary,
                   invoked, previous>>
    /\ UNCHANGED delivered
    /\ UNCHANGED outside

RunDetectPriceVariance ==
    /\ pc = "detect_price_variance"
    /\ IF "price_variance_threshold" \notin DOMAIN cfg.detection
           THEN /\ Return(1, KeyError("price_variance_threshold"))
                /\ UNCHANGED results
           ELSE /\ results' = Append(results,
                        detect_price_variance(df,
                            cfg.detection.price_variance_threshold))
                /\ pc' = "detect_sla_breaches"
                /\ UNCHANGED <<exit_code, error>>
    /\ UNCHANGED <<cfg, df, df_sorted, flagged, scored, source, args,
                   raw_summary, invoked, previous>>
    /\ UNCHANGED delivered
    /\ UNCHANGED outside

RunDetectSlaBreaches ==
    /\ pc = "detect_sla_breaches"
    /\ IF "sla_grace_days" \notin DOMAIN cfg.detection
           THEN /\ Return(1, KeyError("sla_grace_days"))
                /\ UNCHANGED results
           ELSE /\ results' = Append(results,
                        detect_sla_breaches(df, cfg.detection.sla_grace_days))
                /\ pc' = "detect_volume_spikes"
                /\ UNCHANGED <<exit_code, error>>
    /\ UNCHANGED <<cfg, df, df_sorted, flagged, scored, source, args,
                   raw_summary, invoked, previous>>
    /\ UNCHANGED delivered
    /\ UNCHANGED outside

\* rolling(window, min_periods=3) raises when window < 3
rolling_raises(rolling_window) == rolling_window < 3

\* the fourth rule with its exception swallowed: the run goes on to aggregate
RunDetectVolumeSpikesSwallowing ==
    /\ pc = "detect_volume_spikes"
    /\ IF "volume_spike_sigma" \notin DOMAIN cfg.detection
           THEN /\ Return(1, KeyError("volume_spike_sigma"))
                /\ UNCHANGED results
       ELSE IF "volume_rolling_window" \notin DOMAIN cfg.detection
           THEN /\ Return(1, KeyError("volume_rolling_window"))
                /\ UNCHANGED results
       ELSE IF rolling_raises(cfg.detection.volume_rolling_window)
           THEN /\ pc' = "aggregate"
                /\ UNCHANGED <<results, exit_code, error>>
       ELSE /\ results' = Append(results,
                    detect_volume_spikes(df, cfg.detection.volume_spike_sigma,
                                         cfg.detection.volume_rolling_window))
            /\ pc' = "aggregate"
            /\ UNCHANGED <<exit_code, error>>
    /\ UNCHANGED <<cfg, df, df_sorted, flagged, scored, source, args,
                   raw_summary, invoked, previous>>
    /\ UNCHANGED delivered
    /\ UNCHANGED outside

RunDetectVolumeSpikes ==
    /\ pc = "detect_volume_spikes"
    /\ IF "volume_spike_sigma" \notin DOMAIN cfg.detection
           THEN /\ Return(1, KeyError("volume_spike_sigma"))
                /\ UNCHANGED results
       ELSE IF "volume_rolling_window" \notin DOMAIN cfg.detection
           THEN /\ Return(1, KeyError("volume_rolling_window"))
                /\ UNCHANGED results
       ELSE IF rolling_raises(cfg.detection.volume_rolling_window)
           THEN /\ Return(1, Raised("ValueError", "detect_volume_spikes", {}))
                /\ UNCHANGED results
       ELSE /\ results' = Append(results,
                    detect_volume_spikes(df, cfg.detection.volume_spike_sigma,
                                         cfg.detection.volume_rolling_window))
            /\ pc' = "aggregate"
            /\ UNCHANGED <<exit_code, error>>
    /\ UNCHANGED <<cfg, df, df_sorted, flagged, scored, source, args,
                   raw_summary, invoked, previous>>
    /\ UNCHANGED delivered
    /\ UNCHANGED outside

\* the summary dict of run_detection
summary(d, fl) ==
    [total_transactions |-> Len(d),
     total_flagged |-> Len(fl),
     total_leakage_gbp |->
        SumSeq([i \in 1..Len(fl) |-> fl[i].leakage_amount_gbp])]

\* pd.concat(results), drop_duplicates and the summary; run_detection returns
\* and run_pipeline binds flagged and raw_summary
Aggregate ==
    /\ pc = "aggregate"
    /\ flagged' = aggregate(results)
    /\ raw_summary' = <<summary(df, aggregate(results))>>
    /\ pc' = "stage_3"
    /\ UNCHANGED <<cfg, df, df_sorted, results, scored, source, error, args,
                   exit_code, invoked, previous>>
    /\ UNCHANGED delivered
    /\ UNCHANGED outside

\* stage 3: flagged is not None and len(flagged) > 0
ScoreFlaggedTransactions ==
    /\ pc = "stage_3"
    /\ raw_summary # << >>
    /\ Len(flagged) > 0
    /\ IF ScoringKeys \subseteq DOMAIN cfg.scoring
           THEN /\ scored' = score_flagged_transactions(flagged, cfg.scoring)
                /\ invoked' = invoked \cup {"score_flagged_transactions",
                                            "build_executive_summary"}
                /\ pc' = "stage_4"
                /\ UNCHANGED <<exit_code, error>>
           ELSE /\ invoked' = invoked \cup {"score_flagged_transactions"}
                /\ Return(1, Raised("KeyError", "score_flagged_transactions",
                                    ScoringKeys \ DOMAIN cfg.scoring))
                /\ UNCHANGED scored
    /\ UNCHANGED <<cfg, df, df_sorted, results, flagged, source, args,
                   raw_summary, previous>>
    /\ UNCHANGED delivered
    /\ UNCHANGED outside

\* stage 3: len(flagged) == 0, nothing is scored
NoAnomalies ==
    /\ pc = "stage_3"
    /\ raw_summary # << >>
    /\ Len(flagged) = 0
    /\ pc' = "stage_4"
    /\ UNCHANGED <<cfg, df, df_sorted, results, flagged, scored>>
    /\ UNCHANGED pipeline
    /\ UNCHANGED outside

\* stage 3: flagged is None
SkipScoring ==
    /\ pc = "stage_3"
    /\ raw_summary = << >>
    /\ pc' = "stage_4"
    /\ UNCHANGED <<cfg, df, df_sorted, results, flagged, scored>>
    /\ UNCHANGED pipeline
    /\ UNCHANGED outside

\* stage 4 calling generate_report whatever scored holds
GenerateReportUnguarded ==
    /\ pc = "stage_4"
    /\ args.full_run \/ args.report
    /\ invoked' = invoked \cup {"generate_report"}
    /\ \/ /\ pc' = "stage_5"
          /\ UNCHANGED <<exit_code, error>>
       \/ Return(1, Raised("Exception", "generate_report", {}))
    /\ UNCHANGED <<cfg, df, df_sorted, results, flagged, scored, source,
                   args, raw_summary, previous>>
    /\ UNCHANGED delivered
    /\ UNCHANGED outside

\* stage 4: the report is written, or generate_report raises
GenerateReport ==
    /\ pc = "stage_4"
    /\ args.full_run \/ args.report
    /\ scored # << >>
    /\ invoked' = invoked \cup {"generate_report"}
    /\ \/ /\ pc' = "stage_5"
          /\ UNCHANGED <<exit_code, error>>
       \/ Return(1, Raised("Exception", "generate_report", {}))
    /\ UNCHANGED <<cfg, df, df_sorted, results, flagged, scored, source,
                   args, raw_summary, previous>>
    /\ UNCHANGED delivered
    /\ UNCHANGED outside

\* stage 4 is not wanted, or scored is None
SkipReport ==
    /\ pc = "stage_4"
    /\ ~((args.full_run \/ args.report) /\ scored # << >>)
    /\ pc' = "stage_5"
    /\ UNCHANGED <<cfg, df, df_sorted, results, flagged, scored>>
    /\ UNCHANGED pipeline
    /\ UNCHANGED outside

\* stage 5: the dashboard is written, or generate_dashboard raises
GenerateDashboard ==
    /\ pc = "stage_5"
    /\ args.full_run \/ args.dashboard
    /\ scored # << >>
    /\ invoked' = invoked \cup {"generate_dashboard"}
    /\ \/ /\ pc' = "stage_6"
          /\ UNCHANGED <<exit_code, error>>
       \/ Return(1, Raised("Exception", "generate_dashboard", {}))
    /\ UNCHANGED <<cfg, df, df_sorted, results, flagged, scored, source,
                   args, raw_summary, previous>>
    /\ UNCHANGED delivered
    /\ UNCHANGED outside

SkipDashboard ==
    /\ pc = "stage_5"
    /\ ~((args.full_run \/ args.dashboard) /\ scored # << >>)
    /\ pc' = "stage_6"
    /\ UNCHANGED <<cfg, df, df_sorted, results, flagged, scored>>
    /\ UNCHANGED pipeline
    /\ UNCHANGED outside

\* the outcomes of delivered = send_alert(...): True, False, or an exception
AlertOutcomes == {"delivered", "undelivered", "raised"}

\* stage 6 returning 1 when the alert is not delivered or send_alert raises
SendAlertFatal ==
    /\ pc = "stage_6"
    /\ args.full_run \/ args.alert
    /\ scored # << >>
    /\ invoked' = invoked \cup {"send_alert"}
    /\ \E outcome \in AlertOutcomes :
        /\ delivered' = <<outcome>>
        /\ IF outcome = "delivered"
               THEN Return(0, NoError)
               ELSE Return(1, Raised("Exception", "send_alert", {}))
    /\ UNCHANGED <<cfg, df, df_sorted, results, flagged, scored, source,
                   args, raw_summary, previous>>
    /\ UNCHANGED outside

\* stage 6: send_alert delivers, reports a failed delivery or raises; the
\* warning or the exception is logged and the pipeline completes with 0 in
\* each case
SendAlert ==
    /\ pc = "stage_6"
    /\ args.full_run \/ args.alert
    /\ scored # << >>
    /\ invoked' = invoked \cup {"send_alert"}
    /\ \E outcome \in AlertOutcomes :
        /\ delivered' = <<outcome>>
        /\ Return(0, IF outcome = "raised"
                         THEN Raised("Exception", "send_alert", {})
                         ELSE NoError)
    /\ UNCHANGED <<cfg, df, df_sorted, results, flagged, scored, source,
                   args, raw_summary, previous>>
    /\ UNCHANGED outside

SkipAlert ==
    /\ pc = "stage_6"
    /\ ~((args.full_run \/ args.alert) /\ scored # << >>)
    /\ Return(0, NoError)
    /\ UNCHANGED <<cfg, df, df_sorted, results, flagged, scored, source,
                   args, raw_summary, invoked, previous>>
    /\ UNCHANGED delivered
    /\ UNCHANGED outside

\* the command is run once more on the same configuration and the same
\* file: every local of run_pipeline starts afresh
Rerun ==
    /\ pc = "exit"
    /\ previous = << >>
    /\ previous' = <<[flagged |-> flagged, scored |-> scored,
                      raw_summary |-> raw_summary, df_sorted |-> df_sorted,
                      exit_code |-> exit_code]>>
    /\ pc' = "stage_1"
    /\ df' = << >>
    /\ df_sorted' = << >>
    /\ results' = << >>
    /\ flagged' = << >>
    /\ scored' = << >>
    /\ raw_summary' = << >>
    /\ invoked' = {}
    /\ error' = NoError
    /\ exit_code' = -1
    /\ delivered' = << >>
    /\ UNCHANGED <<cfg, source, args>>
    /\ UNCHANGED outside

Next ==
    \/ GenerateData
    \/ SkipGenerateData
    \/ SkipDetection
    \/ LoadTransactions
    \/ RunDetectDuplicates
    \/ RunDetectPriceVariance
    \/ RunDetectSlaBreaches
    \/ RunDetectVolumeSpikes
    \/ Aggregate
    \/ ScoreFlaggedTransactions
    \/ NoAnomalies
    \/ SkipScoring
    \/ GenerateReport
    \/ SkipReport
    \/ GenerateDashboard
    \/ SkipDashboard
    \/ SendAlert
    \/ SkipAlert
    \/ Rerun

Spec == Init /\ [][Next]_vars

SpecLoad == InitLoad /\ [][CallLoadTransactions]_vars

SpecScore == InitScore /\ [][CallScoreFlaggedTransactions]_vars

SpecDup == InitDup /\ [][CallDetectDuplicates]_vars

SpecPrice == InitPrice /\ [][CallDetectPriceVariance]_vars

SpecSla == InitSla /\ [][CallDetectSlaBreaches]_vars

SpecVol == InitVol /\ [][CallDetectVolumeSpikes]_vars

SpecSummary == InitSummary /\ [][CallBuildExecutiveSummary]_vars

(***************************************************************************)
(* The four rules over one shared batch, evaluated in any order.  Frames   *)
(* are objects on a heap: heap[1] is the batch the caller passes to every  *)
(* rule, df.copy(), df[mask].copy(), drop(...) without inplace, groupby    *)
(* and merge allocate a new object, an assignment to a column and          *)
(* drop(..., inplace=True) change the object they are applied to.          *)
(***************************************************************************)
\* df["_amount_key"] = df["invoice_amount"].round(0)
with_amount_key(d) ==
    [i \in 1..Len(d) |-> d[i] @@ ("_amount_key" :> amount_key(d[i]))]

\* df["_price_ratio"] = df["invoice_amount"] / df["baseline_rate"]
with_price_ratio(d) ==
    [i \in 1..Len(d) |-> d[i] @@ ("_price_ratio" :> price_ratio(d[i]))]

\* df["_breach_days"] = (actual - expected).dt.days - grace_days
with_breach_days(d, grace_days) ==
    [i \in 1..Len(d) |-> d[i] @@ ("_breach_days" :> breach_days(d[i], grace_days))]

\* drop(columns=[...]): the frame without the columns
drop_columns(d, columns) ==
    [i \in 1..Len(d) |-> [f \in DOMAIN d[i] \ columns |-> d[i][f]]]

\* flagged.merge(daily_counts[["date", "daily_count", ...]], on="date")
merge_daily_counts(r, dc) ==
    r @@ [rule_triggered |-> "volume_spike",
          daily_count |-> dc[CHOOSE k \in 1..Len(dc) : dc[k].date = r.date].daily_count,
          leakage_amount_gbp |-> 0]

\* df[df["date"].isin(spike_days)].copy() merged with the daily counts
volume_flagged(d, dc, sigma, rolling_window) ==
    LET days == {dc[k].date : k \in
                    {k \in 1..Len(dc) :
                        exceeds_upper_bound(dc, k, sigma, rolling_window)}}
        sel == SelectSeq(d, LAMBDA r : r.date \in days)
    IN  [i \in 1..Len(sel) |-> merge_daily_counts(sel[i], dc)]

NotStarted(rule) == rule \notin DOMAIN refs

Running(rule) == rule \in DOMAIN refs /\ refs[rule].returned = 0

HasReturned(rule) == rule \in DOMAIN refs /\ refs[rule].returned # 0

\* the rule holds a reference to the object it works on
Started(rule, work) == refs @@ (rule :> [work |-> work, returned |-> 0])

\* the rule has handed the object at a reference to its caller
ReturnedAt(rule, ref) == [refs EXCEPT ![rule].returned = ref]

\* the batches the rules are evaluated over: three days of history, then a
\* late, overcharged invoice and a second transaction on the same day that
\* may repeat its supplier and amount
RuleBatches ==
    {HistoryRows \o <<Txn(4, 3, "SUP002", 130000, 100000, 2),
                      Txn(5, 3, sup, amount, 100000, 0)>> :
        sup \in Suppliers, amount \in {100000, 130000}}

InitRules ==
    /\ df \in RuleBatches
    /\ heap = <<df>>
    /\ refs = << >>
    /\ cfg = DefaultCfg
    /\ pc = "rules"
    /\ sched = NoSched
    /\ df_sorted = << >>
    /\ results = << >>
    /\ flagged = << >>
    /\ scored = << >>
    /\ source = NoSource
    /\ NoPipeline

\* lines 108-112: the copy, its helper column, and the sort of the copy
BeginDetectDuplicates ==
    /\ pc = "rules"
    /\ NotStarted("duplicate")
    /\ heap' = Append(heap, with_amount_key(heap[1]))
    /\ \E sorted \in sort_values_date(heap'[Len(heap')]) : df_sorted' = sorted
    /\ refs' = Started("duplicate", Len(heap'))
    /\ df' = heap'[1]
    /\ UNCHANGED <<cfg, pc, results, flagged, scored, sched>>
    /\ UNCHANGED pipeline

\* lines 114-147: the matching, flagged = df[mask].copy(), the helper column
\* dropped in place from the copy, and flagged without it returned
FinishDetectDuplicates ==
    /\ pc = "rules"
    /\ Running("duplicate")
    /\ LET work == refs["duplicate"].work
           rows == detect_duplicates(heap[work], df_sorted,
                                     cfg.detection.duplicate_window_days)
       IN  heap' = [heap EXCEPT ![work] = drop_columns(@, {"_amount_key"})]
                    \o <<rows, drop_columns(rows, {"_amount_key"})>>
    /\ refs' = ReturnedAt("duplicate", Len(heap'))
    /\ results' = Append(results, heap'[Len(heap')])
    /\ df' = heap'[1]
    /\ UNCHANGED <<cfg, pc, df_sorted, flagged, scored, sched>>
    /\ UNCHANGED pipeline

\* the ratio column written into the frame passed in
BeginDetectPriceVarianceInPlace ==
    /\ pc = "rules"
    /\ NotStarted("price_variance")
    /\ heap' = [heap EXCEPT ![1] = with_price_ratio(@)]
    /\ refs' = Started("price_variance", 1)
    /\ df' = heap'[1]
    /\ UNCHANGED <<cfg, pc, df_sorted, results, flagged, scored, sched>>
    /\ UNCHANGED pipeline

\* lines 177-178: the copy and its helper column
BeginDetectPriceVariance ==
    /\ pc = "rules"
    /\ NotStarted("price_variance")
    /\ heap' = Append(heap, with_price_ratio(heap[1]))
    /\ refs' = Started("price_variance", Len(heap'))
    /\ df' = heap'[1]
    /\ UNCHANGED <<cfg, pc, df_sorted, results, flagged, scored, sched>>
    /\ UNCHANGED pipeline

\* lines 180-206: flagged = df[mask].copy(), its columns, and the helper
\* column dropped in place from flagged
FinishDetectPriceVariance ==
    /\ pc = "rules"
    /\ Running("price_variance")
    /\ heap' = Append(heap,
            drop_columns(detect_price_variance(heap[refs["price_variance"].work],
                            cfg.detection.price_variance_threshold),
                         {"_price_ratio"}))
    /\ refs' = ReturnedAt("price_variance", Len(heap'))
    /\ results' = Append(results, heap'[Len(heap')])
    /\ df' = heap'[1]
    /\ UNCHANGED <<cfg, pc, df_sorted, flagged, scored, sched>>
    /\ UNCHANGED pipeline

\* lines 238-241: the copy and its helper column
BeginDetectSlaBreaches ==
    /\ pc = "rules"
    /\ NotStarted("sla_breach")
    /\ heap' = Append(heap, with_breach_days(heap[1], cfg.detection.sla_grace_days))
    /\ refs' = Started("sla_breach", Len(heap'))
    /\ df' = heap'[1]
    /\ UNCHANGED <<cfg, pc, df_sorted, results, flagged, scored, sched>>
    /\ UNCHANGED pipeline

\* lines 243-272: flagged = df[mask].copy(), its columns, and the helper
\* column renamed to breach_days in flagged
FinishDetectSlaBreaches ==
    /\ pc = "rules"
    /\ Running("sla_breach")
    /\ heap' = Append(heap,
            drop_columns(detect_sla_breaches(heap[refs["sla_breach"].work],
                            cfg.detection.sla_grace_days),
                         {"_breach_days"}))
    /\ refs' = ReturnedAt("sla_breach", Len(heap'))
    /\ results' = Append(results, heap'[Len(heap')])
    /\ df' = heap'[1]
    /\ UNCHANGED <<cfg, pc, df_sorted, flagged, scored, sched>>
    /\ UNCHANGED pipeline

\* lines 310-316: daily_counts, a new frame grouped from the frame passed in
BeginDetectVolumeSpikes ==
    /\ pc = "rules"
    /\ NotStarted("volume_spike")
    /\ heap' = Append(heap, daily_counts(heap[1]))
    /\ refs' = Started("volume_spike", Len(heap'))
    /\ df' = heap'[1]
    /\ UNCHANGED <<cfg, pc, df_sorted, results, flagged, scored, sched>>
    /\ UNCHANGED pipeline

\* lines 318-366: the spike days of daily_counts, the rows of the frame
\* passed in on those days copied and merged with the counts
FinishDetectVolumeSpikes ==
    /\ pc = "rules"
    /\ Running("volume_spike")
    /\ heap' = Append(heap,
            volume_flagged(heap[1], heap[refs["volume_spike"].work],
                           cfg.detection.volume_spike_sigma,
                           cfg.detection.volume_rolling_window))
    /\ refs' = ReturnedAt("volume_spike", Len(heap'))
    /\ results' = Append(results, heap'[Len(heap')])
    /\ df' = heap'[1]
    /\ UNCHANGED <<cfg, pc, df_sorted, flagged, scored, sched>>
    /\ UNCHANGED pipeline

\* pd.concat(results) and drop_duplicates once the four rules have returned,
\* the outputs taken in the order in which the rules returned
AggregateRules ==
    /\ pc = "rules"
    /\ \A rule \in Rules : HasReturned(rule)
    /\ flagged' = aggregate(results)
    /\ pc' = "aggregated"
    /\ UNCHANGED <<cfg, df, df_sorted, results, scored>>
    /\ UNCHANGED pipeline
    /\ UNCHANGED outside

NextRules ==
    \/ BeginDetectDuplicates
    \/ FinishDetectDuplicates
    \/ BeginDetectPriceVariance
    \/ FinishDetectPriceVariance
    \/ BeginDetectSlaBreaches
    \/ FinishDetectSlaBreaches
    \/ BeginDetectVolumeSpikes
    \/ FinishDetectVolumeSpikes
    \/ AggregateRules

SpecRules == InitRules /\ [][NextRules]_vars

(***************************************************************************)
(* The scheduler: _run_full_pipeline (src/scheduler.py)                    *)
(***************************************************************************)
\* the namespace that mirrors --full-run
SchedArgs == [NoArgs EXCEPT !.full_run = TRUE]

\* a trigger of the job: the loop is about to start with attempt = 1
InitSched ==
    /\ source \in [exists : BOOLEAN,
                   columns : {required_columns},
                   rows : {to_csv(b) : b \in SmallBatches}]
    /\ cfg \in {DefaultCfg, Without(DefaultCfg, "volume_spike_sigma")}
    /\ args = SchedArgs
    /\ sched \in {[max_retries |-> m, attempt |-> 1, invocations |-> 0,
                   sleeps |-> 0] : m \in 0..MaxRetries}
    /\ pc = "sched_loop"
    /\ df = << >>
    /\ df_sorted = << >>
    /\ results = << >>
    /\ flagged = << >>
    /\ scored = << >>
    /\ error = NoError
    /\ exit_code = -1
    /\ raw_summary = << >>
    /\ invoked = {}
    /\ previous = << >>
    /\ delivered = << >>
    /\ heap = << >>
    /\ refs = << >>

\* run_pipeline is entered: its locals start afresh
EnterRunPipeline ==
    /\ pc' = "stage_1"
    /\ df' = << >>
    /\ df_sorted' = << >>
    /\ results' = << >>
    /\ flagged' = << >>
    /\ scored' = << >>
    /\ raw_summary' = << >>
    /\ invoked' = {}
    /\ error' = NoError
    /\ exit_code' = -1
    /\ delivered' = << >>

\* a loop over range(0, max_retries + 1): one attempt too many
SchedInvokeOnceMore ==
    /\ pc = "sched_loop"
    /\ sched.attempt <= sched.max_retries + 1
    /\ sched' = [sched EXCEPT !.invocations = @ + 1]
    /\ EnterRunPipeline
    /\ UNCHANGED <<cfg, source, args, previous, heap, refs>>

\* for attempt in range(1, max_retries + 1): exit_code = run_pipeline(args, logger)
SchedInvoke ==
    /\ pc = "sched_loop"
    /\ sched.attempt <= sched.max_retries
    /\ sched' = [sched EXCEPT !.invocations = @ + 1]
    /\ EnterRunPipeline
    /\ UNCHANGED <<cfg, source, args, previous, heap, refs>>

\* the loop is exhausted: the failure is logged and the function returns
SchedExhausted ==
    /\ pc = "sched_loop"
    /\ sched.attempt > sched.max_retries
    /\ pc' = "sched_returned"
    /\ UNCHANGED <<cfg, df, df_sorted, results, flagged, scored, sched, heap,
                   refs>>
    /\ UNCHANGED pipeline

\* run_pipeline raises instead of returning: its imports precede every try
RunPipelineRaises ==
    /\ pc = "stage_1"
    /\ pc' = "exit"
    /\ error' = Raised("ImportError", "run_pipeline", {})
    /\ UNCHANGED <<cfg, df, df_sorted, results, flagged, scored, source, args,
                   exit_code, raw_summary, invoked, previous, delivered>>
    /\ UNCHANGED outside

\* exit_code == 0: the success is logged and the function returns
SchedSucceeded ==
    /\ pc = "exit"
    /\ exit_code = 0
    /\ pc' = "sched_returned"
    /\ UNCHANGED <<cfg, df, df_sorted, results, flagged, scored, sched, heap,
                   refs>>
    /\ UNCHANGED pipeline

\* a non-zero exit code or an exception is logged; time.sleep(retry_delay)
\* runs if attempt < max_retries, and the loop goes on to the next attempt
SchedFailed ==
    /\ pc = "exit"
    /\ exit_code # 0
    /\ sched' = [sched EXCEPT
                    !.sleeps = IF sched.attempt < sched.max_retries
                                   THEN @ + 1 ELSE @,
                    !.attempt = @ + 1]
    /\ pc' = "sched_loop"
    /\ UNCHANGED <<cfg, df, df_sorted, results, flagged, scored, heap, refs>>
    /\ UNCHANGED pipeline

\* one trigger of the scheduled job, with run_pipeline run as a full run
NextSched ==
    \/ SchedInvoke
    \/ SchedExhausted
    \/ RunPipelineRaises
    \/ SchedSucceeded
    \/ SchedFailed
    \/ GenerateData
    \/ LoadTransactions
    \/ RunDetectDuplicates
    \/ RunDetectPriceVariance
    \/ RunDetectSlaBreaches
    \/ RunDetectVolumeSpikes
    \/ Aggregate
    \/ ScoreFlaggedTransactions
    \/ NoAnomalies
    \/ GenerateReport
    \/ SkipReport
    \/ GenerateDashboard
    \/ SkipDashboard
    \/ SendAlert
    \/ SkipAlert

\* the job runs in one thread and every step it can take is taken
SpecSched == InitSched /\ [][NextSched]_vars /\ WF_vars(NextSched)

(***************************************************************************)
(* Properties of the four rules                                            *)
(***************************************************************************)
Returned == pc = "returned"

\* the frame a direct call returned, and the transaction ids in it
Out == results[1]

OutIds == {Out[i].transaction_id : i \in 1..Len(Out)}

Rows == 1..Len(df)

\* the whole pound nearest to an amount in pence that is not half-way
NearestPound(a) == (a + 50) \div 100

SameGroup(a, b) ==
    /\ a.supplier_id = b.supplier_id
    /\ NearestPound(a.invoice_amount) = NearestPound(b.invoice_amount)

\* C1: within a group (same supplier_id, same invoice_amount rounded to the
\* whole pound) a transaction is flagged by detect_duplicates iff a member
\* that precedes it in date-ascending order is dated within window_days of
\* it.  So the later-dated member of such a pair is flagged, the earliest
\* member of a group never is, and a transaction with no group member within
\* the window (another supplier, another rounded amount, too far apart) is
\* not flagged; the frame holds one row per flagged transaction.
C1_DuplicateFlagIff ==
    Returned =>
        LET w == cfg.detection.duplicate_window_days
            n == Len(df_sorted)
        IN  /\ \A j \in 1..n :
                df_sorted[j].transaction_id \in OutIds
                <=> \E i \in 1..(j - 1) :
                        /\ SameGroup(df_sorted[i], df_sorted[j])
                        /\ df_sorted[j].date - df_sorted[i].date <= w
            /\ \A a, b \in Rows :
                /\ SameGroup(df[a], df[b])
                /\ df[a].date < df[b].date
                /\ df[b].date - df[a].date <= w
                => df[b].transaction_id \in OutIds
            /\ \A a \in Rows :
                (\A b \in Rows \ {a} :
                    SameGroup(df[a], df[b]) => df[a].date < df[b].date)
                => df[a].transaction_id \notin OutIds
            /\ \A a \in Rows :
                (\A b \in Rows \ {a} :
                    \/ ~SameGroup(df[a], df[b])
                    \/ Abs(df[a].date - df[b].date) > w)
                => df[a].transaction_id \notin OutIds
            /\ Len(Out) = Cardinality(OutIds)
            /\ \A i \in 1..Len(Out) : Out[i].rule_triggered = "duplicate"

\* a chain of three in one group on consecutive days with window 1: the two
\* later ones are flagged, the earliest is not
C1_Witness ==
    /\ Returned
    /\ cfg.detection.duplicate_window_days = 1
    /\ \E a, b, c \in Rows :
        /\ SameGroup(df[a], df[b]) /\ SameGroup(df[b], df[c])
        /\ df[a].invoice_amount # df[b].invoice_amount
        /\ df[a].date = 0 /\ df[b].date = 1 /\ df[c].date = 2
        /\ df[a].transaction_id \notin OutIds
        /\ df[b].transaction_id \in OutIds
        /\ df[c].transaction_id \in OutIds

Excess(f) ==
    f.invoice_amount * 100 - f.baseline_rate * cfg.detection.price_variance_threshold

BatchDates == {df[a].date : a \in Rows}

CountOn(date) == Cardinality({a \in Rows : df[a].date = date})

\* the up to rolling_window dates of the batch just before a date
PriorDates(date) ==
    {p \in BatchDates :
        /\ p < date
        /\ Cardinality({q \in BatchDates : p < q /\ q < date})
            < cfg.detection.volume_rolling_window}

\* the sum over a set of dates of their counts
RECURSIVE SumCounts(_)
SumCounts(S) ==
    IF S = {} THEN 0
    ELSE LET x == CHOOSE y \in S : TRUE IN CountOn(x) + SumCounts(S \ {x})

\* the sum over a set of dates of (n * count - total)^2
RECURSIVE SumSquaredDev(_, _, _)
SumSquaredDev(S, n, total) ==
    IF S = {} THEN 0
    ELSE LET x == CHOOSE y \in S : TRUE
         IN  (n * CountOn(x) - total) * (n * CountOn(x) - total)
             + SumSquaredDev(S \ {x}, n, total)

\* count > mean + sigma * std over the prior dates, at least 3 of them:
\* with n prior counts c_i of sum S, (n * count - S) > 0 and
\* (n * count - S)^2 * (n - 1) > sigma^2 * SUM (n * c_i - S)^2
IsSpikeDay(date) ==
    LET prior == PriorDates(date)
        n == Cardinality(prior)
        S == SumCounts(prior)
        d == n * CountOn(date) - S
        sigma == cfg.detection.volume_spike_sigma
    IN  /\ n >= 3
        /\ d > 0
        /\ d * d * (n - 1) * 100 > sigma * sigma * SumSquaredDev(prior, n, S)

\* C5: detect_volume_spikes flags by day: the flagged transactions are
\* exactly those dated on a spike day (daily count > rolling mean +
\* sigma_threshold * rolling std), all of them on a spike day and none on
\* another day, and every volume_spike flag has leakage_amount_gbp = 0.00.
C5_VolumeFlagsAreSpikeDays ==
    Returned =>
        LET ids == OutIds
        IN  /\ \A date \in BatchDates :
                IF IsSpikeDay(date)
                THEN \A a \in Rows :
                        df[a].date = date => df[a].transaction_id \in ids
                ELSE \A a \in Rows :
                        df[a].date = date => df[a].transaction_id \notin ids
            /\ \A i \in 1..Len(Out) :
                /\ Out[i].leakage_amount_gbp = 0
                /\ Out[i].rule_triggered = "volume_spike"
                /\ IsSpikeDay(Out[i].date)
            /\ Len(Out) = Cardinality(ids)

\* a day of 2 transactions after unequal days is a spike day at sigma 1.0:
\* both are flagged and a transaction of the days before is not
C5_Witness ==
    /\ Returned
    /\ cfg.detection.volume_spike_sigma = 10
    /\ \E date \in BatchDates :
        /\ CountOn(date) = 2
        /\ \E p, q \in PriorDates(date) : CountOn(p) # CountOn(q)
        /\ \A a \in Rows : df[a].date = date => df[a].transaction_id \in OutIds
        /\ \E a \in Rows : df[a].date < date /\ df[a].transaction_id \notin OutIds
        /\ Len(Out) = 2

(***************************************************************************)
(* Properties of the aggregation                                           *)
(***************************************************************************)
\* run_detection has aggregated the rule outputs
Aggregated == raw_summary # << >>

\* the rows the four rules returned, in pd.concat order
RuleRows == results[1] \o results[2] \o results[3] \o results[4]

Matching(s, id, rule) ==
    {i \in 1..Len(s) : s[i].transaction_id = id /\ s[i].rule_triggered = rule}

\* C6: after run_detection has aggregated the four rule outputs, no two
\* entries of the flagged set have the same (transaction_id, rule_triggered)
\* pair, also when a rule's own output repeats a pair.
C6_NoRepeatedPair ==
    Aggregated =>
        \A i, j \in 1..Len(flagged) :
            /\ flagged[i].transaction_id = flagged[j].transaction_id
            /\ flagged[i].rule_triggered = flagged[j].rule_triggered
            => i = j

\* one rule returned the same pair twice and the pair is flagged once
C6_Witness ==
    /\ Aggregated
    /\ \E k \in 1..4 : \E i, j \in 1..Len(results[k]) :
        /\ i # j
        /\ results[k][i].transaction_id = results[k][j].transaction_id
        /\ Cardinality(Matching(flagged, results[k][i].transaction_id,
                                results[k][i].rule_triggered)) = 1

\* C7: aggregation is a union that keeps overlapping findings: every
\* (transaction, rule) pair a rule produced is in the flagged set exactly
\* once, nothing else is, and a transaction flagged by k rules carries k flags.
C7_UnionKeepsEveryPair ==
    Aggregated =>
        /\ \A i \in 1..Len(RuleRows) :
            Cardinality(Matching(flagged, RuleRows[i].transaction_id,
                                 RuleRows[i].rule_triggered)) = 1
        /\ \A i \in 1..Len(flagged) : \E j \in 1..Len(RuleRows) : flagged[i] = RuleRows[j]
        /\ \A a \in Rows :
            Cardinality({i \in 1..Len(flagged) :
                            flagged[i].transaction_id = df[a].transaction_id})
            = Cardinality({k \in 1..4 : \E i \in 1..Len(results[k]) :
                            results[k][i].transaction_id = df[a].transaction_id})

\* one transaction flagged by all four rules carries four flags
C7_Witness ==
    /\ Aggregated
    /\ \E a \in Rows :
        /\ \A k \in 1..4 : \E i \in 1..Len(results[k]) :
            results[k][i].transaction_id = df[a].transaction_id
        /\ Cardinality({i \in 1..Len(flagged) :
                            flagged[i].transaction_id = df[a].transaction_id}) = 4

(***************************************************************************)
(* Properties of the scorer                                                *)
(***************************************************************************)
Scored == pc = "returned" \/ scored # << >>

BaseScoresWithin ==
    \A r \in DOMAIN cfg.scoring.rule_base_scores :
        /\ cfg.scoring.rule_base_scores[r] >= 0
        /\ cfg.scoring.rule_base_scores[r] <= 7000

\* C8: with base scores configured in 0..70, every scored flag has
\* composite_score = min(base_score + financial_score, 100), within [0, 100],
\* whatever its leakage (0, negative, very large) and its rule.
C8_CompositeWithinBounds ==
    Scored /\ BaseScoresWithin =>
        \A i \in 1..Len(scored) :
            /\ scored[i].composite_score
                = Min(scored[i].base_score + scored[i].financial_score, 10000)
            /\ scored[i].composite_score >= 0
            /\ scored[i].composite_score <= 10000

\* a negative leakage under a base score of 0 beside a leakage of 50,000.00
C8_Witness ==
    /\ pc = "returned"
    /\ BaseScoresWithin
    /\ \E i, j \in 1..Len(scored) :
        /\ scored[i].leakage_amount_gbp < 0
        /\ scored[i].base_score = 0
        /\ scored[i].composite_score = 0
        /\ scored[j].leakage_amount_gbp = 5000000
        /\ scored[j].composite_score = 3000

\* C9: severity is monotonic in composite_score under any bands: of two
\* scored flags, the one with the lower or equal composite_score has the
\* lower or equal severity_rank.
C9_SeverityMonotonic ==
    Scored =>
        \A i, j \in 1..Len(scored) :
            scored[i].composite_score <= scored[j].composite_score
            => scored[i].severity_rank <= scored[j].severity_rank

\* bands with critical below high, one score between the two and one above
C9_Witness ==
    /\ pc = "returned"
    /\ cfg.scoring.severity_bands.critical < cfg.scoring.severity_bands.high
    /\ \E i, j \in 1..Len(scored) :
        /\ scored[i].composite_score >= cfg.scoring.severity_bands.critical
        /\ scored[i].composite_score < cfg.scoring.severity_bands.high
        /\ scored[j].composite_score > cfg.scoring.severity_bands.high
        /\ scored[i].severity_rank = scored[j].severity_rank

\* C10: with bands critical >= high >= medium, a score is Critical iff it is
\* >= critical, High iff high <= score < critical, Medium iff medium <= score
\* < high, and Low otherwise; a score equal to a cutoff gets that band's label.
C10_BandsInclusiveBelow ==
    LET b == cfg.scoring.severity_bands
    IN  Scored /\ b.critical >= b.high /\ b.high >= b.medium =>
            \A i \in 1..Len(scored) :
                LET c == scored[i].composite_score
                    sev == scored[i].severity
                IN  /\ sev = "Critical" <=> c >= b.critical
                    /\ sev = "High" <=> (b.high <= c /\ c < b.critical)
                    /\ sev = "Medium" <=> (b.medium <= c /\ c < b.high)
                    /\ sev = "Low" <=> c < b.medium
                    /\ c = 8000 /\ b.critical = 8000 => sev = "Critical"
                    /\ c = 6000 /\ b.high = 6000 /\ b.critical > 6000 => sev = "High"
                    /\ c = 3500 /\ b.medium = 3500 /\ b.high > 3500 => sev = "Medium"

\* the default bands with scores of exactly 80, 60 and 35
C10_Witness ==
    /\ pc = "returned"
    /\ cfg.scoring.severity_bands = DefaultScoring.severity_bands
    /\ \E i, j, k \in 1..Len(scored) :
        /\ scored[i].composite_score = 8000 /\ scored[i].severity = "Critical"
        /\ scored[j].composite_score = 6000 /\ scored[j].severity = "High"
        /\ scored[k].composite_score = 3500 /\ scored[k].severity = "Medium"

OrderedThresholds ==
    LET t == cfg.scoring.financial_multipliers
    IN  0 < t.low_threshold /\ t.low_threshold < t.medium_threshold
        /\ t.medium_threshold < t.high_threshold

\* score / 100 = offset / 100 + (num / den) * (slope / 100), exactly
ExactlyOnLine(score, offset, num, den, slope) ==
    (score - offset) * den = slope * num

\* score / 100 is a value of 2 decimal places nearest to
\* offset / 100 + (num / den) * (slope / 100)
NearestOnLine(score, offset, num, den, slope) ==
    2 * Abs((score - offset) * den - slope * num) <= den

\* C11 as stated: under thresholds 0 < low < medium < high the financial score
\* of every flag is exactly 0 for amount <= 0, 5 + (amount/low)*5 below low,
\* 10 + ((amount-low)/(medium-low))*10 below medium,
\* 20 + ((amount-medium)/(high-medium))*8 below high, and 30 from high on.
C11_FinancialScoreExact ==
    Scored /\ OrderedThresholds =>
        \A i \in 1..Len(scored) :
            LET a == scored[i].leakage_amount_gbp
                fs == scored[i].financial_score
                t == cfg.scoring.financial_multipliers
                low == t.low_threshold
                med == t.medium_threshold
                high == t.high_threshold
            IN  IF a <= 0 THEN fs = 0
                ELSE IF a < low THEN ExactlyOnLine(fs, 500, a, low, 500)
                ELSE IF a < med
                    THEN ExactlyOnLine(fs, 1000, a - low, med - low, 1000)
                ELSE IF a < high
                    THEN ExactlyOnLine(fs, 2000, a - med, high - med, 800)
                ELSE fs = 3000

\* C11: under thresholds 0 < low < medium < high the financial score of every
\* flag is the piecewise value rounded to 2 decimal places (0 for amount <= 0,
\* 30 from high on, the band's line in between), and it lies within [0, 30].
C11_FinancialScoreRounded ==
    Scored /\ OrderedThresholds =>
        \A i \in 1..Len(scored) :
            LET a == scored[i].leakage_amount_gbp
                fs == scored[i].financial_score
                t == cfg.scoring.financial_multipliers
                low == t.low_threshold
                med == t.medium_threshold
                high == t.high_threshold
            IN  /\ 0 <= fs /\ fs <= 3000
                /\ IF a <= 0 THEN fs = 0
                   ELSE IF a < low
                       THEN NearestOnLine(fs, 500, a, low, 500)
                            /\ 500 <= fs /\ fs <= 1000
                   ELSE IF a < med
                       THEN NearestOnLine(fs, 1000, a - low, med - low, 1000)
                            /\ 1000 <= fs /\ fs <= 2000
                   ELSE IF a < high
                       THEN NearestOnLine(fs, 2000, a - med, high - med, 800)
                            /\ 2000 <= fs /\ fs <= 2800
                   ELSE fs = 3000

\* thresholds 500 / 2,000 / 10,000: a leakage of 0.01 scores 5.00 where the
\* line gives 5.0001, beside a leakage of 6,000.00 that scores 24.00
C11_Witness ==
    /\ pc = "returned"
    /\ cfg.scoring.financial_multipliers = DefaultScoring.financial_multipliers
    /\ \E i, j \in 1..Len(scored) :
        /\ scored[i].leakage_amount_gbp = 1
        /\ scored[i].financial_score = 500
        /\ scored[j].leakage_amount_gbp = 600000
        /\ scored[j].financial_score = 2400

\* C12: the financial score is non-decreasing in the leakage amount: of two
\* scored flags, the one with the lower or equal leakage has the lower or
\* equal financial score, under any thresholds.
C12_FinancialScoreMonotonic ==
    Scored =>
        \A i, j \in 1..Len(scored) :
            scored[i].leakage_amount_gbp <= scored[j].leakage_amount_gbp
            => scored[i].financial_score <= scored[j].financial_score

\* a leakage just below the low threshold beside one exactly on it
C12_Witness ==
    /\ pc = "returned"
    /\ \E i, j \in 1..Len(scored) :
        /\ scored[i].leakage_amount_gbp > 0
        /\ scored[i].leakage_amount_gbp
            < cfg.scoring.financial_multipliers.low_threshold
        /\ scored[j].leakage_amount_gbp
            = cfg.scoring.financial_multipliers.low_threshold
        /\ scored[i].financial_score < scored[j].financial_score

\* the input columns of a scored row
InputColumns(row) ==
    [f \in {"transaction_id", "rule_triggered", "leakage_amount_gbp"} |-> row[f]]

\* the position in the input of the flag that became scored[k]
InputPosition(k) ==
    CHOOSE i \in 1..Len(flagged) : flagged[i] = InputColumns(scored[k])

\* C13: the output of score_flagged_transactions holds every input flag once
\* and nothing else, ordered by severity_rank descending, then leakage
\* descending, and flags equal on both keys keep their input order.
C13_SortedPermutation ==
    pc = "returned" =>
        /\ Len(scored) = Len(flagged)
        /\ \A i \in 1..Len(flagged) :
            Cardinality({k \in 1..Len(scored) :
                            InputColumns(scored[k]) = flagged[i]}) = 1
        /\ \A k, l \in 1..Len(scored) :
            k < l =>
                \/ scored[k].severity_rank > scored[l].severity_rank
                \/ /\ scored[k].severity_rank = scored[l].severity_rank
                   /\ scored[k].leakage_amount_gbp > scored[l].leakage_amount_gbp
                \/ /\ scored[k].severity_rank = scored[l].severity_rank
                   /\ scored[k].leakage_amount_gbp = scored[l].leakage_amount_gbp
                   /\ InputPosition(k) < InputPosition(l)

\* three flags of equal leakage: the second outranks the first and moves to
\* the front, the first and third tie on both keys and keep their order
C13_Witness ==
    /\ pc = "returned"
    /\ Len(scored) = 3
    /\ scored[1].transaction_id = 2
    /\ scored[2].transaction_id = 1
    /\ scored[3].transaction_id = 3
    /\ scored[1].severity_rank > scored[2].severity_rank
    /\ scored[2].severity_rank = scored[3].severity_rank
    /\ scored[2].leakage_amount_gbp = scored[3].leakage_amount_gbp

(***************************************************************************)
(* Properties of the pipeline                                              *)
(***************************************************************************)
\* the stage functions that follow detection
LaterStages ==
    {"score_flagged_transactions", "build_executive_summary",
     "generate_report", "generate_dashboard", "send_alert"}

C15_ZeroFlagsExitZero ==
    raw_summary # << >> /\ Len(flagged) = 0 =>
        /\ invoked \cap LaterStages = {}
        /\ exit_code # 1
        /\ pc = "exit" => exit_code = 0

\* a full run over a batch without anomalies has returned 0
C15_Witness ==
    /\ pc = "exit"
    /\ args.full_run
    /\ raw_summary # << >>
    /\ raw_summary[1].total_flagged = 0
    /\ raw_summary[1].total_transactions = 4
    /\ exit_code = 0
    /\ invoked = {"generate_dataset", "run_detection"}

\* C16: when detection is asked for and the transactions file is not there,
\* the run ends with a not-found error and exit code 1, no rule has run, no
\* flagged set or summary exists and no later stage function was called.
C16_MissingDataAborts ==
    pc = "exit" /\ "run_detection" \in invoked /\ ~source.exists =>
        /\ error.type = "FileNotFoundError"
        /\ exit_code = 1
        /\ results = << >>
        /\ df = << >>
        /\ flagged = << >>
        /\ raw_summary = << >>
        /\ invoked \cap LaterStages = {}

\* --report --dashboard without a file
C16_Witness ==
    /\ pc = "exit"
    /\ args.report /\ args.dashboard
    /\ ~source.exists
    /\ error.type = "FileNotFoundError"
    /\ exit_code = 1
    /\ invoked = {"run_detection"}

MissingRequiredKey ==
    \/ ~({"duplicate_window_days", "price_variance_threshold",
          "sla_grace_days", "volume_spike_sigma", "volume_rolling_window"}
            \subseteq DOMAIN cfg.detection)
    \/ ~({"rule_base_scores", "financial_multipliers", "severity_bands"}
            \subseteq DOMAIN cfg.scoring)

\* C17: under a configuration that lacks a required detection or scoring key
\* no rule ever executes, and a run that asked for detection returns 1.
C17_MissingKeyAbortsBeforeRules ==
    MissingRequiredKey =>
        /\ results = << >>
        /\ pc = "exit" /\ "run_detection" \in invoked => exit_code = 1

NineFields ==
    {"transaction_id", "date", "supplier_id", "supplier_name", "category",
     "baseline_rate", "invoice_amount", "expected_delivery_date",
     "actual_delivery_date"}

\* C18: loading a file that lacks some of the nine required fields raises an
\* error naming exactly the missing ones, before any cell is coerced; a file
\* with all nine fields never raises that error.
C18_MissingFieldsNamed ==
    pc \in {"returned", "raised"} /\ source.exists =>
        IF NineFields \subseteq source.columns
            THEN error.raised_by # "load_transactions"
            ELSE /\ pc = "raised"
                 /\ error.type = "ValueError"
                 /\ error.raised_by = "load_transactions"
                 /\ error.names = NineFields \ source.columns
                 /\ df = << >>

\* a file without supplier_name and date whose first row has a date cell that
\* does not parse: the error names both fields
C18_Witness ==
    /\ pc = "raised"
    /\ source.exists
    /\ "region" \in source.columns
    /\ ~source.rows[1].actual_delivery_date.parses
    /\ error.names = {"supplier_name", "date"}

\* C19: a file with all fields and a date or numeric cell that cannot be
\* coerced fails as a whole: load_transactions raises and returns no batch.
C19_UncoercibleFailsBatch ==
    /\ pc \in {"returned", "raised"}
    /\ source.exists
    /\ NineFields \subseteq source.columns
    /\ \E i \in 1..Len(source.rows) :
        \E f \in {"date", "expected_delivery_date", "actual_delivery_date",
                  "invoice_amount", "baseline_rate"} : ~source.rows[i][f].parses
    => pc = "raised" /\ df = << >>

\* the configuration stops run_detection part-way: a detection key is
\* missing, or the rolling window is too short for the fourth rule
DetectionCannotComplete ==
    \/ ~({"duplicate_window_days", "price_variance_threshold",
          "sla_grace_days", "volume_spike_sigma", "volume_rolling_window"}
            \subseteq DOMAIN cfg.detection)
    \/ cfg.detection.volume_rolling_window < 3

\* C20: when a rule fails, run_detection yields no flagged set and no
\* summary, nothing is scored and a run that reached detection returns 1;
\* the aggregation runs, and its output exists, only with four rule outputs.
C20_RuleFailureAbortsStage ==
    /\ DetectionCannotComplete =>
        /\ flagged = << >>
        /\ raw_summary = << >>
        /\ scored = << >>
        /\ invoked \cap LaterStages = {}
        /\ pc # "aggregate"
        /\ pc = "exit" /\ df # << >> => exit_code = 1
    /\ pc = "aggregate" \/ raw_summary # << >> => Len(results) = 4

\* the fourth rule has raised after the second and third returned flags
C20_Witness ==
    /\ pc = "exit"
    /\ error = Raised("ValueError", "detect_volume_spikes", {})
    /\ exit_code = 1
    /\ Len(results) = 3
    /\ Len(results[2]) > 0
    /\ Len(results[3]) > 0
    /\ flagged = << >>
    /\ raw_summary = << >>

(***************************************************************************)
(* Properties of the volume baseline                                       *)
(***************************************************************************)
\* the dates of the batch before a date
EarlierDates(date) == {p \in BatchDates : p < date}

\* C24: a day with fewer than 3 prior days of daily counts is never a spike
\* day: no transaction dated on one of the first three days of the batch is
\* flagged by detect_volume_spikes, whatever its daily count.
C24_MinimumHistory ==
    Returned =>
        \A a \in Rows :
            Cardinality(EarlierDates(df[a].date)) < 3
                => df[a].transaction_id \notin OutIds

\* the third day has more transactions than each of the two days before it
\* and is not flagged, while a later day is
C24_Witness ==
    /\ Returned
    /\ \E date \in BatchDates :
        /\ Cardinality(EarlierDates(date)) = 2
        /\ \A p \in EarlierDates(date) : CountOn(p) < CountOn(date)
        /\ \A a \in Rows : df[a].date = date => df[a].transaction_id \notin OutIds
    /\ \E a \in Rows :
        /\ Cardinality(EarlierDates(df[a].date)) >= 3
        /\ df[a].transaction_id \in OutIds

\* the dates whose counts make the baseline of a date of the batch
BaselineDates(date) ==
    LET dc == daily_counts(df)
        k == CHOOSE j \in 1..Len(dc) : dc[j].date = date
    IN  {dc[i].date : i \in rolling_rows(dc, k, cfg.detection.volume_rolling_window)}

\* C25: the baseline of a day D is computed over the prior rolling_window
\* days only: D's own count does not contribute, and no day further back
\* than rolling_window days before D contributes.
C25_WindowIsPriorDays ==
    Returned =>
        \A date \in BatchDates :
            \A p \in BaselineDates(date) :
                /\ p < date
                /\ date - p <= cfg.detection.volume_rolling_window

\* the batch has the same count on every day that has transactions
UniformCounts == \A p, q \in BatchDates : CountOn(p) = CountOn(q)

\* C26: a batch with the same daily count c >= 1 on every day, for any
\* number of days, rolling_window >= 3 and sigma_threshold >= 0, produces
\* zero volume_spike flags.
C26_UniformNeverFlagged ==
    Returned /\ UniformCounts => Len(Out) = 0

\* two transactions on each of five days at sigma 0: every day from the
\* fourth on has a valid baseline equal to its count, and nothing is flagged
C26_Witness ==
    /\ Returned
    /\ UniformCounts
    /\ Cardinality(BatchDates) >= 4
    /\ \A p \in BatchDates : CountOn(p) = 2
    /\ cfg.detection.volume_spike_sigma = 0
    /\ Len(Out) = 0

(***************************************************************************)
(* All-pairs matching against nearest-predecessor matching                 *)
(***************************************************************************)
\* the members of a date-sorted group dated within window_days of the member
\* just before them
NearestPredecessorIds(g, window_days) ==
    {g[j].transaction_id : j \in
        {j \in 2..Len(g) : Abs(g[j].date - g[j - 1].date) <= window_days}}

\* C28: for every batch and every window_days >= 0 the transactions flagged
\* by comparing every ordered pair (i, j) of a date-sorted group are those
\* flagged by comparing each transaction with its immediate predecessor in
\* the group only.
C28_AllPairsIsNearestPredecessor ==
    Returned =>
        OutIds = UNION {NearestPredecessorIds(Group(df_sorted, k),
                                              cfg.detection.duplicate_window_days) :
                            k \in {GroupKey(df_sorted[i]) : i \in 1..Len(df_sorted)}}

\* three members of one group: the last is outside the window of the first
\* and inside the window of the second, and it is flagged
C28_Witness ==
    /\ Returned
    /\ Len(df_sorted) = 3
    /\ GroupKey(df_sorted[1]) = GroupKey(df_sorted[2])
    /\ GroupKey(df_sorted[2]) = GroupKey(df_sorted[3])
    /\ df_sorted[3].date - df_sorted[1].date > cfg.detection.duplicate_window_days
    /\ df_sorted[3].date - df_sorted[2].date <= cfg.detection.duplicate_window_days
    /\ df_sorted[3].transaction_id \in OutIds

(***************************************************************************)
(* Fatal and non-fatal stage failures of run_pipeline                      *)
(***************************************************************************)
\* the stage functions of run_pipeline in the order it calls them
StageOrder ==
    <<"generate_dataset", "run_detection", "score_flagged_transactions",
      "generate_report", "generate_dashboard", "send_alert">>

\* the stage in which an exception was raised
FailedStage ==
    IF error.raised_by = "generate_dataset" THEN 1
    ELSE IF error.raised_by \in {"load_transactions", "to_datetime",
                                 "run_detection", "detect_volume_spikes"} THEN 2
    ELSE IF error.raised_by = "score_flagged_transactions" THEN 3
    ELSE IF error.raised_by = "generate_report" THEN 4
    ELSE IF error.raised_by = "generate_dashboard" THEN 5
    ELSE 6

\* C29: a failure of data generation, detection, scoring, report generation
\* or dashboard generation makes run_pipeline return 1 at once, with no
\* later stage executed; a failure of the alert stage (an exception or an
\* undelivered alert) is not fatal and run_pipeline returns 0.
C29_FatalStagesAndAlert ==
    /\ error # NoError /\ FailedStage < 6 =>
        /\ pc = "exit"
        /\ exit_code = 1
        /\ \A k \in (FailedStage + 1)..6 : StageOrder[k] \notin invoked
        /\ FailedStage <= 3 => "build_executive_summary" \notin invoked
        /\ delivered = << >>
    /\ delivered \in {<<"undelivered">>, <<"raised">>} =>
        /\ pc = "exit"
        /\ exit_code = 0

\* a full run whose report and dashboard were written and whose alert raised
C29_Witness ==
    /\ pc = "exit"
    /\ delivered = <<"raised">>
    /\ error = Raised("Exception", "send_alert", {})
    /\ {"generate_report", "generate_dashboard", "send_alert"} \subseteq invoked
    /\ exit_code = 0

(***************************************************************************)
(* The retry loop of the scheduler                                         *)
(***************************************************************************)
\* the positions of a run of run_pipeline, in program order
PipelinePositions ==
    <<"stage_1", "stage_2", "detect_duplicates", "detect_price_variance",
      "detect_sla_breaches", "detect_volume_spikes", "aggregate", "stage_3",
      "stage_4", "stage_5", "stage_6", "exit">>

\* the place of a position in run_pipeline, 0 outside it
Position(p) ==
    IF \E k \in 1..Len(PipelinePositions) : PipelinePositions[k] = p
    THEN CHOOSE k \in 1..Len(PipelinePositions) : PipelinePositions[k] = p
    ELSE 0

\* run_pipeline is invoked at most max_retries times and as a full run; the
\* sleeps are the gaps between attempts; a return without an exit code of 0
\* comes only after max_retries attempts
RetryBounds ==
    /\ sched.invocations <= sched.max_retries
    /\ sched.sleeps = Max(sched.invocations - 1, 0)
        \/ (pc = "sched_loop" /\ sched.sleeps = sched.invocations)
    /\ Position(pc) > 0 => args = SchedArgs
    /\ pc = "sched_returned" =>
        /\ sched.sleeps = Max(sched.invocations - 1, 0)
        /\ exit_code = 0 \/ sched.invocations = sched.max_retries

\* an exit code of 0 ends the loop with no sleep and no further attempt; a
\* failure with attempts left is followed by a sleep and the next attempt;
\* inside run_pipeline the position only moves forward
RetrySteps ==
    /\ pc = "exit" /\ exit_code = 0 =>
        pc' = "sched_returned" /\ sched' = sched
    /\ pc = "exit" /\ exit_code # 0 /\ sched.invocations < sched.max_retries =>
        pc' = "sched_loop" /\ sched'.sleeps = sched.sleeps + 1
    /\ pc = "sched_loop" /\ sched.sleeps = sched.invocations
        /\ sched.invocations > 0 /\ sched.invocations < sched.max_retries =>
        pc' = "stage_1" /\ sched'.invocations = sched.invocations + 1
    /\ pc = "sched_returned" => UNCHANGED vars
    /\ Position(pc) > 0 /\ Position(pc') > 0 => Position(pc') > Position(pc)

Summary == results[1]

\* C22: severity_breakdown always holds the four labels Critical, High,
\* Medium and Low, a label without flags with count 0, and the four counts
\* sum to total_flags.
C22_SeverityBreakdownComplete ==
    Returned =>
        LET sev == Summary.severity_breakdown
        IN  /\ DOMAIN sev = {"Critical", "High", "Medium", "Low"}
            /\ \A label \in DOMAIN sev :
                /\ sev[label] >= 0
                /\ sev[label] = 0 <=>
                    ~\E i \in 1..Len(scored) : scored[i].severity = label
            /\ sev["Critical"] + sev["High"] + sev["Medium"] + sev["Low"]
                = Summary.total_flags
            /\ Summary.total_flags = Len(scored)

\* three flags, none of them Critical or High: both labels are there with 0
C22_Witness ==
    /\ Returned
    /\ Summary.total_flags = 3
    /\ Summary.severity_breakdown["Critical"] = 0
    /\ Summary.severity_breakdown["High"] = 0
    /\ Summary.severity_breakdown["Medium"] > 0
    /\ Summary.severity_breakdown["Low"] > 0

\* total leakage of a supplier over the scored set
SupplierTotal(name) == SumLeakage(scored, RowsWith(scored, "supplier_name", name))

ScoredSuppliers == {scored[i].supplier_name : i \in 1..Len(scored)}

\* the first row of the scored set that names a supplier
FirstRowOf(name) ==
    CHOOSE i \in RowsWith(scored, "supplier_name", name) :
        \A j \in RowsWith(scored, "supplier_name", name) : i <= j

\* C23: top_suppliers holds at most 5 suppliers, those with the largest
\* total leakage over the scored set, in descending order of that total,
\* and suppliers with equal totals come in their original order.
C23_TopSuppliersOrdered ==
    Returned =>
        LET top == Summary.top_suppliers
            named == {top[k].key : k \in 1..Len(top)}
        IN  /\ Len(top) = Min(5, Cardinality(ScoredSuppliers))
            /\ Cardinality(named) = Len(top)
            /\ named \subseteq ScoredSuppliers
            /\ \A k \in 1..Len(top) : top[k].value = SupplierTotal(top[k].key)
            /\ \A a \in named, b \in ScoredSuppliers \ named :
                SupplierTotal(a) >= SupplierTotal(b)
            /\ \A k \in 1..(Len(top) - 1) :
                \/ top[k].value > top[k + 1].value
                \/ /\ top[k].value = top[k + 1].value
                   /\ FirstRowOf(top[k].key) < FirstRowOf(top[k + 1].key)

(***************************************************************************)
(* The rules in any order: order independence and frame effect             *)
(***************************************************************************)
\* the (transaction_id, rule_triggered, leakage) flags of a frame
FlagSet(s) ==
    {<<s[i].transaction_id, s[i].rule_triggered, s[i].leakage_amount_gbp>> :
        i \in 1..Len(s)}

\* the flags of the four rules called one after the other as run_detection
\* calls them
InProgramOrder ==
    aggregate(<<detect_duplicates(df, df_sorted,
                    cfg.detection.duplicate_window_days),
                detect_price_variance(df, cfg.detection.price_variance_threshold),
                detect_sla_breaches(df, cfg.detection.sla_grace_days),
                detect_volume_spikes(df, cfg.detection.volume_spike_sigma,
                                     cfg.detection.volume_rolling_window)>>)

\* C21: the four rules evaluated in any order or interleaving over the same
\* batch yield, after aggregation, the same set of (transaction_id,
\* rule_triggered, leakage) flags.
C21_OrderIndependent ==
    pc = "aggregated" =>
        /\ FlagSet(flagged) = FlagSet(InProgramOrder)
        /\ Len(flagged) = Len(InProgramOrder)

\* the volume rule returned first and the duplicate rule last, and one
\* transaction carries flags of three rules with different leakage
C21_Witness ==
    /\ pc = "aggregated"
    /\ results[1] # << >> /\ results[1][1].rule_triggered = "volume_spike"
    /\ results[4] # << >> /\ results[4][1].rule_triggered = "duplicate"
    /\ \E id \in 1..5 :
        /\ \E x \in FlagSet(flagged) : x[1] = id /\ x[2] = "price_variance" /\ x[3] > 0
        /\ \E x \in FlagSet(flagged) : x[1] = id /\ x[2] = "sla_breach" /\ x[3] > 0
        /\ \E x \in FlagSet(flagged) : x[1] = id /\ x[2] = "volume_spike"

\* a rule's step allocates what it returns: the object is not the batch
\* passed in and did not exist before the step
ReturnsNewObject ==
    \A rule \in Rules :
        Running(rule) /\ rule \in DOMAIN refs' /\ refs'[rule].returned # 0 =>
            /\ refs'[rule].returned > Len(heap)
            /\ refs'[rule].returned # 1

\* C27: no rule modifies its input: the batch passed in has the same rows,
\* columns (no _amount_key, _price_ratio or _breach_days) and values at
\* every step of every rule, and the flag collection returned is a new
\* object.
C27_InputUntouched ==
    [][df' = df /\ heap'[1] = heap[1] /\ ReturnsNewObject]_vars

\* the four rules have returned flags, the working copies of two rules still
\* carry their helper columns, and the batch carries none
C27_Witness ==
    /\ \A rule \in Rules : HasReturned(rule) /\ heap[refs[rule].returned] # << >>
    /\ \A i \in 1..Len(df) :
        DOMAIN df[i] \cap {"_amount_key", "_price_ratio", "_breach_days"} = {}
    /\ "_price_ratio" \in DOMAIN heap[refs["price_variance"].work][1]
    /\ "_breach_days" \in DOMAIN heap[refs["sla_breach"].work][1]
    /\ heap[1] = df

====
